---- MODULE Spec2Model ----
(***************************************************************************)
(* Model of horusbinary.py: the Habitat upload queue and its worker        *)
(* thread (class HabitatUploader), and the ingest loop that feeds it.      *)
(*                                                                         *)
(* Strings are sequences of character codes, so that str.split, the        *)
(* '$$' prefix, the trailing newline and the ASCII test are computed as    *)
(* the code computes them.                                                 *)
(***************************************************************************)
EXTENDS Integers, Sequences, FiniteSets, TLC

\* ------------------------------------------------------------------------
\* Bounds of the model
\* ------------------------------------------------------------------------

\* Queue(queue_size): capacity of the upload queue (the code's default is 16).
queue_size == 3

\* Number of add() calls a behaviour makes.
MaxAdds == 4

\* Number of iterations of the main loop a behaviour makes.
MaxReads == 3

\* ------------------------------------------------------------------------
\* Program constants
\* ------------------------------------------------------------------------

\* HabitatUploader.__init__(upload_retries = 5)
upload_retries == 5

\* summary_port of a configuration that leaves the summary output disabled.
SummaryDisabled == -1

\* read_config's default summary port.
SummaryPortDefault == 55672

\* ------------------------------------------------------------------------
\* Characters and strings
\* ------------------------------------------------------------------------

Dollar == 36
Newline == 10

\* str.encode('ascii') succeeds exactly on strings of code points below 128.
IsAscii(s) == \A i \in 1..Len(s) : s[i] < 128

\* Index of the last occurrence of c in s, 0 when there is none.
RECURSIVE LastIndexOf(_, _, _)
LastIndexOf(s, c, i) ==
    IF i = 0 THEN 0
    ELSE IF s[i] = c THEN i
    ELSE LastIndexOf(s, c, i - 1)

\* s.split(c)[-1]: what follows the last c of s (all of s when it has no c).
SplitLast(s, c) == SubSeq(s, LastIndexOf(s, c, Len(s)) + 1, Len(s))

\* The sentences the producer hands to add(): "$$A", "B\n" and "$$" + e-acute.
Sentences == { <<36, 36, 65>>, <<66, 10>>, <<36, 36, 233>> }

\* HTTP status codes requests.put may return.
StatusCodes == {201, 403, 409, 500}

\* A PUT either returns a response with a status code or raises (timeout,
\* DNS, refusal).
Response(c) == [kind |-> "response", status_code |-> c]
Raised == [kind |-> "exception", status_code |-> 0]
PutOutcomes == {Response(c) : c \in StatusCodes} \cup {Raised}

None == <<"None">>

\* ------------------------------------------------------------------------
\* Strings, as the ingest path handles them
\* ------------------------------------------------------------------------

Star == 42
Comma == 44
Colon == 58
Minus == 45
Dot == 46
Zero == 48

\* Characters str.strip() and str.rstrip() remove: space, \t, \n, \v, \f, \r.
IsSpace(c) == c \in {32, 9, 10, 11, 12, 13}

RECURSIVE RStrip(_)
RStrip(s) ==
    IF s # <<>> /\ IsSpace(s[Len(s)]) THEN RStrip(SubSeq(s, 1, Len(s) - 1)) ELSE s

RECURSIVE LStrip(_)
LStrip(s) == IF s # <<>> /\ IsSpace(s[1]) THEN LStrip(Tail(s)) ELSE s

Strip(s) == LStrip(RStrip(s))

StartsWith(s, p) == Len(s) >= Len(p) /\ SubSeq(s, 1, Len(p)) = p

\* s.split(c): the pieces of s between the occurrences of the character c.
RECURSIVE SplitAt(_, _, _, _)
SplitAt(s, c, i, from) ==
    IF i > Len(s) THEN << SubSeq(s, from, Len(s)) >>
    ELSE IF s[i] = c THEN << SubSeq(s, from, i - 1) >> \o SplitAt(s, c, i + 1, i + 1)
    ELSE SplitAt(s, c, i + 1, from)

Split(s, c) == SplitAt(s, c, 1, 1)

\* s.split('$$')[-1]: what follows the last '$$' found scanning from the left.
RECURSIVE AfterLastPair(_, _, _)
AfterLastPair(s, i, from) ==
    IF i >= Len(s) THEN SubSeq(s, from, Len(s))
    ELSE IF s[i] = Dollar /\ s[i + 1] = Dollar THEN AfterLastPair(s, i + 2, i + 2)
    ELSE AfterLastPair(s, i + 1, from)

IsDigit(c) == c >= 48 /\ c <= 57

\* "%d" % n
RECURSIVE NatStr(_)
NatStr(n) == IF n < 10 THEN << Zero + n >> ELSE Append(NatStr(n \div 10), Zero + (n % 10))

IntStr(n) == IF n < 0 THEN << Minus >> \o NatStr(-n) ELSE NatStr(n)

\* "%02d" % n, n >= 0
Pad2(n) == IF n < 10 THEN << Zero, Zero + n >> ELSE NatStr(n)

\* Zero-padding on the left to w characters: str.zfill(w) of a digit string.
RECURSIVE ZFill(_, _)
ZFill(s, w) == IF Len(s) >= w THEN s ELSE ZFill(<< Zero >> \o s, w)

\* The value of a string of decimal digits.
RECURSIVE DigitsVal(_)
DigitsVal(s) ==
    IF s = <<>> THEN 0 ELSE 10 * DigitsVal(SubSeq(s, 1, Len(s) - 1)) + (s[Len(s)] - Zero)

AllDigits(s) == s # <<>> /\ \A i \in 1..Len(s) : IsDigit(s[i])

\* ------------------------------------------------------------------------
\* crc16_ccitt: CRC-16/CCITT-FALSE, start 0xFFFF, polynomial 0x1021
\* ------------------------------------------------------------------------

RECURSIVE Xor(_, _)
Xor(a, b) ==
    IF a = 0 THEN b
    ELSE IF b = 0 THEN a
    ELSE ((a + b) % 2) + 2 * Xor(a \div 2, b \div 2)

\* One shift of the 16-bit register: the polynomial is folded in when the top
\* bit falls out.
CrcBit(c) == IF c >= 32768 THEN Xor((c * 2) % 65536, 4129) ELSE c * 2

\* n shifts. Each register value is bound (as the one element of a set)
\* before the next shift reads it.
RECURSIVE CrcShift(_, _)
CrcShift(c, n) ==
    IF n = 0 THEN c
    ELSE CHOOSE r \in { CrcShift(CrcBit(x), n - 1) : x \in {c} } : TRUE

\* The register after one byte.
CrcByte(c, byte) == CHOOSE r \in { CrcShift(Xor(x, byte * 256), 8) : x \in {c} } : TRUE

\* The register after the bytes data[lo..hi], starting from c; the range is
\* halved so that the evaluation stays shallow on long inputs.
RECURSIVE CrcRange(_, _, _, _)
CrcRange(c, data, lo, hi) ==
    IF lo > hi THEN c
    ELSE IF lo = hi THEN CrcByte(c, data[lo])
    ELSE CHOOSE r \in { CrcRange(left, data, ((lo + hi) \div 2) + 1, hi) :
                        left \in { CrcRange(c, data, lo, (lo + hi) \div 2) } } : TRUE

\* crcmod.predefined.mkCrcFun('crc-ccitt-false')(data)
Crc16(data) == CrcRange(65535, data, 1, Len(data))

HexDigitUpper(d) == IF d < 10 THEN Zero + d ELSE 65 + (d - 10)

\* hex(n)[2:].upper(): the uppercase hexadecimal digits of n, no padding.
RECURSIVE HexUpper(_)
HexUpper(n) ==
    IF n < 16 THEN << HexDigitUpper(n) >>
    ELSE Append(HexUpper(n \div 16), HexDigitUpper(n % 16))

\* Lines 343-344: the checksum of `data` as 4 uppercase hexadecimal digits.
crc16_ccitt(data) == ZFill(HexUpper(Crc16(data)), 4)

\* ------------------------------------------------------------------------
\* codecs.decode(data, 'hex')
\* ------------------------------------------------------------------------

HexVal(c) ==
    IF c >= 48 /\ c <= 57 THEN c - 48
    ELSE IF c >= 65 /\ c <= 70 THEN c - 55
    ELSE IF c >= 97 /\ c <= 102 THEN c - 87
    ELSE -1

\* The bytes of a hexadecimal string, or the reason binascii.a2b_hex refuses it.
HexDecode(s) ==
    IF ~IsAscii(s) THEN [error |-> "non_ascii", bytes |-> <<>>]
    ELSE IF Len(s) % 2 = 1 THEN [error |-> "odd_length", bytes |-> <<>>]
    ELSE IF \E i \in 1..Len(s) : HexVal(s[i]) < 0 THEN [error |-> "non_hex", bytes |-> <<>>]
    ELSE [error |-> "none",
          bytes |-> [i \in 1..(Len(s) \div 2) |->
                        16 * HexVal(s[2 * i - 1]) + HexVal(s[2 * i])]]

\* ------------------------------------------------------------------------
\* IEEE-754 single precision, as struct.unpack('<f') reads it and "%.5f"
\* prints it
\* ------------------------------------------------------------------------

RECURSIVE Pow2(_)
Pow2(n) == IF n = 0 THEN 1 ELSE 2 * Pow2(n - 1)

\* The sign, biased exponent and fraction fields of 4 little-endian bytes.
F32(b) ==
    [sign |-> b[4] \div 128,
     exp  |-> (b[4] % 128) * 2 + (b[3] \div 128),
     mant |-> (b[3] % 128) * 65536 + b[2] * 256 + b[1]]

F32IsNan(f) == f.exp = 255 /\ f.mant # 0
F32IsInf(f) == f.exp = 255 /\ f.mant = 0

\* x == 0.0 in Python: +0.0 and -0.0 only.
F32IsZero(f) == f.exp = 0 /\ f.mant = 0

\* round(|x| * 10^5), ties to even, of a normal float with |x| < 4096, computed
\* exactly: with M the 24-bit significand and s = 150 - exp the binary point,
\* |x| = M / 2^s and M * 10^5 = a * 2^12 + c.
F32Scaled5(f) ==
    LET M  == 8388608 + f.mant
        s  == 150 - f.exp
        a  == (M \div 4096) * 100000
        c  == (M % 4096) * 100000
        t  == a + (c \div 4096)
        lo == c % 4096
        d  == Pow2(s - 12)
        q  == t \div d
        r  == t % d
    IN  IF s = 12
        THEN (IF 2 * lo > 4096 \/ (2 * lo = 4096 /\ q % 2 = 1) THEN q + 1 ELSE q)
        ELSE IF 2 * r > d \/ (2 * r = d /\ (lo > 0 \/ q % 2 = 1)) THEN q + 1 ELSE q

\* "%.5f" % x for an integer number n of 10^-5 units
Fixed5Str(neg, n) ==
    (IF neg THEN << Minus >> ELSE <<>>)
        \o NatStr(n \div 100000) \o << Dot >> \o ZFill(NatStr(n % 100000), 5)

\* "%.5f" % x for a single-precision x: nan, inf, zero and subnormals, values
\* below 2^-18 (which print as zero) and normal values below 4096.
FormatF5(f) ==
    CASE F32IsNan(f) -> << 110, 97, 110 >>
      [] F32IsInf(f) -> (IF f.sign = 1 THEN << Minus >> ELSE <<>>) \o << 105, 110, 102 >>
      [] f.exp <= 108 -> Fixed5Str(f.sign = 1, 0)
      [] f.exp >= 109 /\ f.exp <= 138 -> Fixed5Str(f.sign = 1, F32Scaled5(f))

\* "%.2f" % (5.0 * raw / 255.0): raw * 500 / 255 hundredths, rounded to nearest
\* (no raw in 0..255 falls on a tie).
BattStr(raw) ==
    LET n == (raw * 1000 + 255) \div 510
    IN  NatStr(n \div 100) \o << Dot >> \o ZFill(NatStr(n % 100), 2)

\* ------------------------------------------------------------------------
\* decode_horus_binary
\* ------------------------------------------------------------------------

\* read_payload_list's built-in table: 0 -> '4FSKTEST', 1 -> 'HORUSBINARY'
payload_list ==
    (0 :> << 52, 70, 83, 75, 84, 69, 83, 84 >>)
        @@ (1 :> << 72, 79, 82, 85, 83, 66, 73, 78, 65, 82, 89 >>)

\* struct.calcsize("<BHBBBffHBBbBH")
RecordSize == 22

\* Lines 541-551: the fields of a record of RecordSize bytes.
Unpack(data) ==
    [payload_id       |-> data[1],
     counter          |-> data[2] + 256 * data[3],
     hours            |-> data[4],
     minutes          |-> data[5],
     seconds          |-> data[6],
     latitude         |-> F32(SubSeq(data, 7, 10)),
     longitude        |-> F32(SubSeq(data, 11, 14)),
     altitude         |-> data[15] + 256 * data[16],
     speed            |-> data[17],
     sats             |-> data[18],
     temp             |-> IF data[19] >= 128 THEN data[19] - 256 ELSE data[19],
     batt_voltage_raw |-> data[20],
     checksum         |-> data[21] + 256 * data[22]]

\* "%02d:%02d:%02d" % (hours, minutes, seconds)
TimeStr(u) == Pad2(u.hours) \o << Colon >> \o Pad2(u.minutes) \o << Colon >> \o Pad2(u.seconds)

\* Lines 574-584: the UKHAS sentence without its checksum.
RenderSentence(u) ==
    << Dollar, Dollar >> \o payload_list[u.payload_id]
        \o << Comma >> \o NatStr(u.counter)
        \o << Comma >> \o TimeStr(u)
        \o << Comma >> \o FormatF5(u.latitude)
        \o << Comma >> \o FormatF5(u.longitude)
        \o << Comma >> \o NatStr(u.altitude)
        \o << Comma >> \o NatStr(u.speed)
        \o << Comma >> \o NatStr(u.sats)
        \o << Comma >> \o IntStr(u.temp)
        \o << Comma >> \o BattStr(u.batt_voltage_raw)

\* A decoder that reports every failure as a failure to unpack.
DecodeFailed_unpackOnly(why) == [sentence |-> None, telemetry |-> None, error |-> "struct_error"]

\* The (None, None) of lines 537, 559 and 564, with the reason logged.
DecodeFailed(why) == [sentence |-> None, telemetry |-> None, error |-> why]

\* A decoder that does not look at the checksum.
ChecksumMatches_unchecked(data, u) == TRUE

\* Line 557: the received checksum against the one computed over data[:-2].
ChecksumMatches(data, u) == Crc16(SubSeq(data, 1, Len(data) - 2)) = u.checksum

\* Line 562: the payload ID is a key of the payload list.
KnownPayload(id) == id \in DOMAIN payload_list

decode_horus_binary(data) ==
    IF Len(data) # RecordSize THEN DecodeFailed("struct_error")
    ELSE LET u == Unpack(data)
         IN  IF ~ChecksumMatches(data, u) THEN DecodeFailed("checksum_mismatch")
             ELSE IF ~KnownPayload(u.payload_id) THEN DecodeFailed("unknown_payload_id")
             ELSE LET body == RenderSentence(u)
                  IN  [sentence  |-> body \o << Star >>
                                          \o crc16_ccitt(SubSeq(body, 3, Len(body)))
                                          \o << Newline >>,
                       telemetry |-> u,
                       error     |-> "none"]

\* ------------------------------------------------------------------------
\* float(), int() and datetime.strptime(_, "%H:%M:%S") on the fields of a
\* sentence
\* ------------------------------------------------------------------------

\* float(s) for s of the shape [+-]digits[.digits] with at most 5 decimals and
\* an integer part below 20000, or one of nan, inf, -inf; ok is FALSE where
\* float() raises ValueError. n5 is |x| in units of 10^-5.
ParseFloat(str) ==
    LET s     == Strip(str)
        neg   == s # <<>> /\ s[1] = Minus
        signd == s # <<>> /\ s[1] \in {Minus, 43}
        u     == IF signd THEN Tail(s) ELSE s
        parts == Split(u, Dot)
        ip    == parts[1]
        fp    == IF Len(parts) = 2 THEN parts[2] ELSE <<>>
        bad   == [ok |-> FALSE, neg |-> FALSE, kind |-> "none", n5 |-> 0]
    IN  CASE u = << 110, 97, 110 >> -> [ok |-> TRUE, neg |-> neg, kind |-> "nan", n5 |-> 0]
          [] u = << 105, 110, 102 >> -> [ok |-> TRUE, neg |-> neg, kind |-> "inf", n5 |-> 0]
          [] u # << 110, 97, 110 >> /\ u # << 105, 110, 102 >>
               /\ (\/ Len(parts) > 2
                   \/ ip \o fp = <<>>
                   \/ \E i \in 1..Len(ip \o fp) : ~IsDigit((ip \o fp)[i])) -> bad
          [] Len(parts) <= 2 /\ AllDigits(ip \o fp) /\ Len(fp) <= 5 /\ Len(ip) <= 4 ->
                [ok |-> TRUE, neg |-> neg, kind |-> "finite",
                 n5 |-> DigitsVal(ip) * 100000
                          + DigitsVal(fp \o [i \in 1..(5 - Len(fp)) |-> Zero])]

\* x == 0.0
FloatIsZero(x) == x.kind = "finite" /\ x.n5 = 0

\* "%.5f" % x
FloatStr5(x) ==
    CASE x.kind = "nan" -> << 110, 97, 110 >>
      [] x.kind = "inf" -> (IF x.neg THEN << Minus >> ELSE <<>>) \o << 105, 110, 102 >>
      [] x.kind = "finite" -> Fixed5Str(x.neg, x.n5)

\* int(s) for s of the shape [+-]digits with at most 9 digits; ok is FALSE
\* where int() raises ValueError.
ParseInt(str) ==
    LET s     == Strip(str)
        neg   == s # <<>> /\ s[1] = Minus
        signd == s # <<>> /\ s[1] \in {Minus, 43}
        u     == IF signd THEN Tail(s) ELSE s
    IN  IF AllDigits(u) /\ Len(u) <= 9
        THEN [ok |-> TRUE, val |-> IF neg THEN -DigitsVal(u) ELSE DigitsVal(u)]
        ELSE [ok |-> FALSE, val |-> 0]

\* datetime.strptime(s, "%H:%M:%S") succeeds: three fields of one or two
\* digits, hour below 24, minute and second below 60 (the format admits 60 and
\* 61 seconds, the datetime constructor does not).
TimeParses(s) ==
    LET p == Split(s, Colon)
    IN  /\ Len(p) = 3
        /\ \A i \in 1..3 : AllDigits(p[i]) /\ Len(p[i]) <= 2
        /\ DigitsVal(p[1]) <= 23
        /\ DigitsVal(p[2]) <= 59
        /\ DigitsVal(p[3]) <= 59

\* ------------------------------------------------------------------------
\* ozimux_upload: validation of a sentence for the position relay
\* ------------------------------------------------------------------------

\* "TELEMETRY,"
TelemetryPrefix == << 84, 69, 76, 69, 77, 69, 84, 82, 89, 44 >>

\* Line 357: "TELEMETRY,%s,%.5f,%.5f,%d\n"
OziSentence(time, lat, lon, alt) ==
    TelemetryPrefix \o time \o << Comma >> \o FloatStr5(lat) \o << Comma >>
        \o FloatStr5(lon) \o << Comma >> \o IntStr(alt) \o << Newline >>

\* A rejection that lets the call of line 437 happen all the same.
OziReject_forwarding(why) == [send |-> TRUE, log |-> why, datagram |-> <<>>]

\* The returns of lines 406, 424, 429, 434 and 442: nothing is sent.
OziReject(why) == [send |-> FALSE, log |-> why, datagram |-> <<>>]

\* Line 404: the computed checksum against the one in the sentence.
CrcAgrees(calc, given) == calc = given

\* Line 427: a zero latitude or a zero longitude is refused.
ZeroLatLon(lat, lon) == FloatIsZero(lat) \/ FloatIsZero(lon)

\* A range test that is one off at both ends.
BadAltitude_offByOne(alt) == alt > 65536 \/ alt < -1

\* Line 432: the altitude is outside of a uint16.
BadAltitude(alt) == alt > 65535 \/ alt < 0

\* Lines 388-442 up to the call of oziplotter_upload_basic_telemetry: the
\* datagram to send, or the reason logged for sending none. "exception" is the
\* except clause of line 440 (IndexError, ValueError, UnicodeEncodeError).
OziCheck(sentence_in) ==
    LET s0     == AfterLastPair(Strip(sentence_in), 1, 1)
        s1     == IF s0 # <<>> /\ s0[1] = Dollar THEN Tail(s0) ELSE s0
        halves == Split(s1, Star)
        telem  == halves[1]
        fields == Split(telem, Comma)
        lat    == ParseFloat(fields[4])
        lon    == ParseFloat(fields[5])
        alt    == ParseInt(fields[6])
    IN  IF s0 = <<>> THEN OziReject("exception")
        ELSE IF Len(halves) < 2 THEN OziReject("exception")
        ELSE IF ~IsAscii(telem) THEN OziReject("exception")
        ELSE IF ~CrcAgrees(crc16_ccitt(telem), halves[2]) THEN OziReject("crc_fail")
        ELSE IF Len(fields) < 6 THEN OziReject("exception")
        ELSE IF ~lat.ok \/ ~lon.ok \/ ~alt.ok THEN OziReject("exception")
        ELSE IF ~TimeParses(fields[3]) THEN OziReject("invalid_time")
        ELSE IF ZeroLatLon(lat, lon) THEN OziReject("zero_latlon")
        ELSE IF BadAltitude(alt.val) THEN OziReject("invalid_altitude")
        ELSE [send |-> TRUE, log |-> "none",
              datagram |-> OziSentence(fields[3], lat, lon, alt.val)]

\* ------------------------------------------------------------------------
\* send_payload_summary: whether a summary datagram is attempted
\* ------------------------------------------------------------------------

\* A test that refuses a summary as soon as one coordinate is 0.0.
SummaryZero_either(u) == F32IsZero(u.latitude) \/ F32IsZero(u.longitude)

\* Line 461: latitude and longitude both 0.0.
SummaryZero(u) == F32IsZero(u.latitude) /\ F32IsZero(u.longitude)

\* Lines 456-463: "disabled", "zero" or "send".
SummaryCheck(port, u) ==
    IF port = SummaryDisabled THEN "disabled"
    ELSE IF SummaryZero(u) THEN "zero"
    ELSE "send"

\* ------------------------------------------------------------------------
\* Input lines
\* ------------------------------------------------------------------------

\* A valid record of payload 1 (HORUSBINARY), as hexadecimal.
\*   012A00030405A7F921417E58A44188130307FBC83C5F
LineGood ==
    << 48, 49, 50, 65, 48, 48, 48, 51, 48, 52, 48, 53, 65, 55, 70, 57,
       50, 49, 52, 49, 55, 69, 53, 56, 65, 52, 52, 49, 56, 56, 49, 51,
       48, 51, 48, 55, 70, 66, 67, 56, 51, 67, 53, 70 >>

\* The same record under payload id 77, with the checksum of that record.
\*   4D2A00030405A7F921417E58A44188130307FBC82489
LineUnknownId ==
    << 52, 68, 50, 65, 48, 48, 48, 51, 48, 52, 48, 53, 65, 55, 70, 57,
       50, 49, 52, 49, 55, 69, 53, 56, 65, 52, 52, 49, 56, 56, 49, 51,
       48, 51, 48, 55, 70, 66, 67, 56, 50, 52, 56, 57 >>

\* LineGood with one bit of the counter flipped: the checksum no longer agrees.
\*   012B00030405A7F921417E58A44188130307FBC83C5F
LineBadCrc ==
    << 48, 49, 50, 66, 48, 48, 48, 51, 48, 52, 48, 53, 65, 55, 70, 57,
       50, 49, 52, 49, 55, 69, 53, 56, 65, 52, 52, 49, 56, 56, 49, 51,
       48, 51, 48, 55, 70, 66, 67, 56, 51, 67, 53, 70 >>

\* LineGood without its last byte: 21 bytes.
\*   012A00030405A7F921417E58A44188130307FBC83C
LineShort ==
    << 48, 49, 50, 65, 48, 48, 48, 51, 48, 52, 48, 53, 65, 55, 70, 57,
       50, 49, 52, 49, 55, 69, 53, 56, 65, 52, 52, 49, 56, 56, 49, 51,
       48, 51, 48, 55, 70, 66, 67, 56, 51, 67 >>

\* A UKHAS sentence with a correct checksum.
\*   $$TESTPAYLOAD,10,12:00:00,-34.91000,138.60000,100*C291
LineUkhas ==
    << 36, 36, 84, 69, 83, 84, 80, 65, 89, 76, 79, 65, 68, 44, 49, 48,
       44, 49, 50, 58, 48, 48, 58, 48, 48, 44, 45, 51, 52, 46, 57, 49,
       48, 48, 48, 44, 49, 51, 56, 46, 54, 48, 48, 48, 48, 44, 49, 48,
       48, 42, 67, 50, 57, 49 >>

\* A UKHAS sentence with a correct checksum and a '$' in its last field.
\*   $$P,7,12:00:00,1.5,2.5,10,$5*EC98
LineUkhasDollar ==
    << 36, 36, 80, 44, 55, 44, 49, 50, 58, 48, 48, 58, 48, 48, 44, 49,
       46, 53, 44, 50, 46, 53, 44, 49, 48, 44, 36, 53, 42, 69, 67, 57,
       56 >>

\* "$$A": starts like a UKHAS sentence and has no checksum.
LineUkhasBad == << 36, 36, 65 >>

\* "4Z": an even number of characters, one of them not a hexadecimal digit.
LineNonHex == << 52, 90 >>

\* "012": hexadecimal digits, an odd number of them.
LineOdd == << 48, 49, 50 >>

\* One character outside ASCII (e-acute); as a datagram, the byte 0xE9.
LineNonAscii == << 233 >>

\* An empty datagram, or an empty line.
LineEmpty == << >>

\* What a datagram or a line of standard input may hold.
InputLines ==
    { LineGood, LineUnknownId, LineBadCrc, LineShort, LineUkhas, LineUkhasBad,
      LineNonHex, LineOdd, LineNonAscii, LineEmpty }

\* Lines that start with '$$': what the ASCII path may be given.
AsciiLines == { LineUkhas, LineUkhasDollar, LineUkhasBad }

\* ------------------------------------------------------------------------
\* The UDP emitters' sends
\* ------------------------------------------------------------------------

\* Lines 371-375 and 492-498: the broadcast send succeeds ("sent"), or it
\* raises socket.error and the send to 127.0.0.1 succeeds ("fallback"), or
\* that one raises too ("failed").
SendOutcomes == {"sent", "fallback", "failed"}

\* An emitter that repeats its loopback send.
Sent_twice(out, dgram, o) ==
    IF o = "sent" THEN Append(out, [to |-> "broadcast", data |-> dgram])
    ELSE IF o = "fallback"
         THEN out \o << [to |-> "localhost", data |-> dgram],
                        [to |-> "localhost", data |-> dgram] >>
    ELSE out

\* The datagrams on the wire after an emitter's sends.
Sent(out, dgram, o) ==
    IF o = "sent" THEN Append(out, [to |-> "broadcast", data |-> dgram])
    ELSE IF o = "fallback" THEN Append(out, [to |-> "localhost", data |-> dgram])
    ELSE out

\* How the sends of an emitter may end: it sends only when `sends` holds.
OutcomesOf(sends) == IF sends THEN SendOutcomes ELSE {"not_sent"}

\* Lines 377 and 500: close() is reached unless the second send raised.
Unclosed(o) == IF o = "failed" THEN 1 ELSE 0

\* ------------------------------------------------------------------------
\* The handlers' pure part, computed once per input
\* ------------------------------------------------------------------------

\* ozimux_upload was not reached.
OziNotCalled == OziReject("not_called")

\* What handle_ukhas (path "ukhas") or handle_binary (path "binary") computes
\* from a line: the hex decoding, the decoder's result and ozimux_upload's
\* verdict on the sentence it is given.
Analyse(data) ==
    IF StartsWith(data, <<Dollar, Dollar>>)
    THEN [path |-> "ukhas", hex |-> "none", decoded |-> DecodeFailed("not_called"),
          ozi |-> OziCheck(data)]
    ELSE LET h == HexDecode(data)
         IN  IF h.error # "none"
             THEN [path |-> "binary", hex |-> h.error,
                   decoded |-> DecodeFailed("not_called"), ozi |-> OziNotCalled]
             ELSE LET dec == decode_horus_binary(h.bytes)
                  IN  [path |-> "binary", hex |-> "none", decoded |-> dec,
                       ozi |-> IF dec.error = "none" THEN OziCheck(dec.sentence)
                               ELSE OziNotCalled]

\* Line 869: the lines main dispatches, after rstrip().
Dispatched == { RStrip(d) : d \in InputLines \cup AsciiLines }

Analysis == [data \in Dispatched |-> Analyse(data)]

\* ------------------------------------------------------------------------
\* State
\* ------------------------------------------------------------------------

VARIABLES
    habitat_upload_queue,       \* Queue(queue_size): sequence of entries [id, s]
    habitat_uploader_running,   \* the worker's run flag
    inhibit,                    \* self.inhibit
    wpc,                        \* position of the upload thread
    sentence,                   \* the worker's local `sentence`
    retries,                    \* habitat_upload's local `_retries`
    responses,                  \* outcomes of the PUTs of the habitat_upload call in progress
    uplog,                      \* log records of the habitat_upload call in progress
    addCalls,                   \* number of add() calls made; the id of the last one
    lastAdd,                    \* outcome of the last add() call
    enqueued,                   \* entries put on the queue, in order
    removed,                    \* entries got from the queue, in order
    passed,                     \* entries handed to habitat_upload, in order
    warnings,                   \* "queue was full" warnings logged by the worker
    observedFull,               \* the worker has seen qsize() == queue_size
    pausedAdds,                 \* add() calls made before the worker's first step
    drainFrom,                  \* Len(removed) when the overflow drain in progress began
    discarded,                  \* ids got in an overflow drain and overwritten by a later get
    survivors,                  \* ids left in `sentence` at the end of each overflow drain
    mpc,                        \* position of main: "read", "done" or "crashed"
    stdin_mode,                 \* args.stdin
    python3,                    \* the interpreter is Python 3 (the code supports 2 and 3)
    summary_port,               \* the global summary_port
    reads,                      \* iterations of the main loop made
    ozi_out,                    \* position datagrams sent, in order
    summary_out,                \* summary datagrams sent, in order
    log_file,                   \* sentences written to the telemetry log file, in order
    unclosed,                   \* emitter sockets left unclosed
    lastIn,                     \* what the last iteration of the main loop read and did
    decodeErrors,               \* reasons for which decode_horus_binary has failed so far
    analysis,                   \* Analysis, evaluated when the program starts
    uuids,                      \* the global `uuids`: the pool of fetched UUIDs
    lpc,                        \* position in postListenerData and fetchUuids
    fetch_retries,              \* fetchUuids' local `_retries`
    attempts,                   \* GETs made by the fetchUuids call in progress
    issued,                     \* UUIDs the server has handed out so far
    doc,                        \* doc['_id'] of the document being posted
    posted,                     \* documents handed to requests.post, in order
    results,                    \* return values of the postListenerData calls, in order
    in_queue,                   \* fskstats: Queue(1) between reader thread and plot timer
    udp_mode,                   \* fskstats: args.udp != -1
    rpc,                        \* fskstats: position of the reader thread
    in_line,                    \* fskstats: read_stdin's local `in_line`
    m,                          \* fskstats: read_udp's local `m`
    arrivals,                   \* fskstats: lines read, datagrams and errors of recvfrom so far
    dropped,                    \* fskstats: items the reader received and did not queue
    tpc,                        \* fskstats: position of update_plots
    plotted                     \* fskstats: items update_plots has taken, in order

vars == << habitat_upload_queue, habitat_uploader_running, inhibit, wpc, sentence,
           retries, responses, uplog, addCalls, lastAdd, enqueued, removed, passed,
           warnings, observedFull, pausedAdds, drainFrom, discarded, survivors,
           mpc, stdin_mode, python3, summary_port, reads, ozi_out, summary_out,
           log_file, unclosed, lastIn, decodeErrors, analysis,
           uuids, lpc, fetch_retries, attempts, issued, doc, posted, results,
           in_queue, udp_mode, rpc, in_line, m, arrivals, dropped, tpc, plotted >>

workerVars == << wpc, sentence, retries, responses, uplog, removed, passed,
                 warnings, observedFull, drainFrom, discarded, survivors >>

producerVars == << addCalls, lastAdd, enqueued, pausedAdds >>

mainVars == << mpc, stdin_mode, python3, summary_port, reads, ozi_out, summary_out,
               log_file, unclosed, lastIn, decodeErrors, analysis >>

listenerVars == << uuids, lpc, fetch_retries, attempts, issued, doc, posted, results >>

guiVars == << in_queue, udp_mode, rpc, in_line, m, arrivals, dropped, tpc, plotted >>

uploaderVars == << habitat_upload_queue, habitat_uploader_running, inhibit, workerVars,
                   producerVars, mainVars >>

\* lastIn before the first iteration.
NoInput == [n |-> 0, data |-> <<>>, path |-> "none", hex |-> "none",
            decode |-> "none", raised |-> FALSE, steps |-> <<>>]

Ids(q) == [i \in 1..Len(q) |-> q[i].id]

\* The worker has not yet executed a step of habitat_upload_thread.
WorkerPaused == wpc = "start"

InitUploader ==
    /\ habitat_upload_queue = <<>>
    /\ habitat_uploader_running = TRUE
    /\ inhibit \in BOOLEAN
    /\ wpc = "start"
    /\ sentence = None
    /\ retries = 0
    /\ responses = <<>>
    /\ uplog = <<>>
    /\ addCalls = 0
    /\ lastAdd = [id |-> 0, result |-> "none"]
    /\ enqueued = <<>>
    /\ removed = <<>>
    /\ passed = <<>>
    /\ warnings = 0
    /\ observedFull = FALSE
    /\ pausedAdds = 0
    /\ drainFrom = 0
    /\ discarded = {}
    /\ survivors = <<>>

\* A local variable that has not been assigned yet.
Unbound == <<"unbound">>

\* horusbinary.py lines 225-230, before any listener document is posted.
InitListener ==
    /\ uuids = <<>>
    /\ lpc = "idle"
    /\ fetch_retries = 0
    /\ attempts = 0
    /\ issued = 0
    /\ doc = None
    /\ posted = <<>>
    /\ results = <<>>

\* fskstats.py line 38 and the start of its reader thread (lines 218-223).
InitGui ==
    /\ in_queue = <<>>
    /\ rpc = "read"
    /\ in_line = Unbound
    /\ m = Unbound
    /\ arrivals = 0
    /\ dropped = {}
    /\ tpc = "idle"
    /\ plotted = <<>>

InitOutputs ==
    /\ analysis = Analysis
    /\ mpc = "read"
    /\ reads = 0
    /\ ozi_out = <<>>
    /\ summary_out = <<>>
    /\ log_file = <<>>
    /\ unclosed = 0
    /\ lastIn = NoInput
    /\ decodeErrors = {}

\* The uploader on its own: main is represented by the producer of Next, under
\* one configuration.
Init ==
    /\ InitOutputs
    /\ InitUploader
    /\ InitListener
    /\ InitGui /\ udp_mode = FALSE
    /\ stdin_mode = FALSE
    /\ python3 = TRUE
    /\ summary_port = SummaryPortDefault

\* ------------------------------------------------------------------------
\* HabitatUploader.add
\* ------------------------------------------------------------------------

\* Lines 204-209: keep what follows the last '$', put '$$' in front, and
\* append a newline unless the last character is one already.
Normalize(s) ==
    LET body == SplitLast(s, Dollar)
        pre  == <<Dollar, Dollar>> \o body
    IN  IF pre[Len(pre)] = Newline THEN pre ELSE Append(pre, Newline)

\* A put that makes room on a full queue by dropping its oldest entry.
put_nowait_displacing(q, e) ==
    IF Len(q) >= queue_size
    THEN [full |-> FALSE, queue |-> Append(Tail(q), e)]
    ELSE [full |-> FALSE, queue |-> Append(q, e)]

\* Queue.put_nowait: raises Full on a queue holding maxsize items.
put_nowait(q, e) ==
    IF Len(q) >= queue_size
    THEN [full |-> TRUE, queue |-> q]
    ELSE [full |-> FALSE, queue |-> Append(q, e)]

\* An uploader that ignores its inhibit flag.
Inhibited_ignored == FALSE

\* Line 198: if self.inhibit.
Inhibited == inhibit

\* An add() that takes a lock the thread holds for the time of an upload.
add_locked(s) ==
    /\ wpc \notin {"upload", "put", "check_retries", "return"}
    /\ addCalls' = addCalls + 1
    /\ pausedAdds' = IF WorkerPaused THEN pausedAdds + 1 ELSE pausedAdds
    /\ IF Inhibited
       THEN /\ lastAdd' = [id |-> addCalls', result |-> "inhibited"]
            /\ UNCHANGED << habitat_upload_queue, enqueued >>
       ELSE LET r == put_nowait(habitat_upload_queue, [id |-> addCalls', s |-> Normalize(s)])
            IN  /\ habitat_upload_queue' = r.queue
                /\ lastAdd' = [id |-> addCalls',
                               result |-> IF r.full THEN "error" ELSE "queued"]
                /\ enqueued' = IF r.full THEN enqueued
                                ELSE Append(enqueued, [id |-> addCalls', s |-> Normalize(s)])

add(s) ==
    /\ addCalls' = addCalls + 1
    /\ pausedAdds' = IF WorkerPaused THEN pausedAdds + 1 ELSE pausedAdds
    /\ IF Inhibited
       THEN /\ lastAdd' = [id |-> addCalls', result |-> "inhibited"]
            /\ UNCHANGED << habitat_upload_queue, enqueued >>
       ELSE LET r == put_nowait(habitat_upload_queue, [id |-> addCalls', s |-> Normalize(s)])
            IN  /\ habitat_upload_queue' = r.queue
                /\ lastAdd' = [id |-> addCalls',
                               result |-> IF r.full THEN "error" ELSE "queued"]
                /\ enqueued' = IF r.full THEN enqueued
                                ELSE Append(enqueued, [id |-> addCalls', s |-> Normalize(s)])

\* A call of add() by the producer.
Add(s) ==
    /\ addCalls < MaxAdds
    /\ add(s)
    /\ UNCHANGED << habitat_uploader_running, inhibit, workerVars, mainVars >>
    /\ UNCHANGED << listenerVars, guiVars >>

\* ------------------------------------------------------------------------
\* HabitatUploader.close
\* ------------------------------------------------------------------------

Close ==
    /\ habitat_uploader_running
    /\ habitat_uploader_running' = FALSE
    /\ UNCHANGED << habitat_upload_queue, inhibit, workerVars, producerVars, mainVars >>
    /\ UNCHANGED << listenerVars, guiVars >>

\* ------------------------------------------------------------------------
\* HabitatUploader.habitat_upload_thread
\* ------------------------------------------------------------------------

\* Line 170: the thread starts running.
W_Start ==
    /\ wpc = "start"
    /\ wpc' = "while"
    /\ UNCHANGED << habitat_upload_queue, habitat_uploader_running, inhibit, sentence,
                    retries, responses, uplog, removed, passed, warnings, observedFull,
                    drainFrom, discarded, survivors, producerVars, mainVars >>
    /\ UNCHANGED << listenerVars, guiVars >>

\* A loop that does not look at the running flag.
W_While_ignoresFlag ==
    /\ wpc = "while"
    /\ wpc' = "if_qsize"
    /\ UNCHANGED << habitat_upload_queue, habitat_uploader_running, inhibit, sentence,
                    retries, responses, uplog, removed, passed, warnings, observedFull,
                    drainFrom, discarded, survivors, producerVars, mainVars >>
    /\ UNCHANGED << listenerVars, guiVars >>

\* Line 172: while self.habitat_uploader_running; line 192 when it is false.
W_While ==
    /\ wpc = "while"
    /\ wpc' = IF habitat_uploader_running THEN "if_qsize" ELSE "stopped"
    /\ UNCHANGED << habitat_upload_queue, habitat_uploader_running, inhibit, sentence,
                    retries, responses, uplog, removed, passed, warnings, observedFull,
                    drainFrom, discarded, survivors, producerVars, mainVars >>
    /\ UNCHANGED << listenerVars, guiVars >>

\* Line 174: if qsize() > 0, else the sleep of line 190.
W_IfQsize ==
    /\ wpc = "if_qsize"
    /\ wpc' = IF Len(habitat_upload_queue) > 0 THEN "if_full" ELSE "sleep"
    /\ UNCHANGED << habitat_upload_queue, habitat_uploader_running, inhibit, sentence,
                    retries, responses, uplog, removed, passed, warnings, observedFull,
                    drainFrom, discarded, survivors, producerVars, mainVars >>
    /\ UNCHANGED << listenerVars, guiVars >>

\* Line 190: time.sleep(0.1), then back to the loop test.
W_Sleep ==
    /\ wpc = "sleep"
    /\ wpc' = "while"
    /\ UNCHANGED << habitat_upload_queue, habitat_uploader_running, inhibit, sentence,
                    retries, responses, uplog, removed, passed, warnings, observedFull,
                    drainFrom, discarded, survivors, producerVars, mainVars >>
    /\ UNCHANGED << listenerVars, guiVars >>

\* A test that takes the queue to be full one entry early.
QueueIsFull_early(n) == n >= queue_size - 1

\* Line 176: the queue is taken to be full when qsize() == self.queue_size.
QueueIsFull(n) == n = queue_size

W_IfFull ==
    /\ wpc = "if_full"
    /\ IF QueueIsFull(Len(habitat_upload_queue))
       THEN wpc' = "drain_empty" /\ observedFull' = TRUE /\ drainFrom' = Len(removed)
       ELSE wpc' = "get" /\ UNCHANGED << observedFull, drainFrom >>
    /\ UNCHANGED << habitat_upload_queue, habitat_uploader_running, inhibit, sentence,
                    retries, responses, uplog, removed, passed, warnings, discarded,
                    survivors, producerVars, mainVars >>
    /\ UNCHANGED << listenerVars, guiVars >>

\* A get that takes the newest entry instead of the oldest.
get_lifo(q) == [item |-> q[Len(q)], queue |-> SubSeq(q, 1, Len(q) - 1)]

\* A get that returns the oldest entry and leaves it in the queue.
get_peek(q) == [item |-> Head(q), queue |-> q]

\* Queue.get(): blocks while the queue is empty, else removes the oldest entry.
get(q) == [item |-> Head(q), queue |-> Tail(q)]

\* A drain loop that stops one entry early.
empty_early(q) == Len(q) <= 1

\* A drain loop that never sees the queue empty.
empty_never(q) == FALSE

\* Queue.empty()
empty(q) == Len(q) = 0

\* Line 177: while not empty(); line 180 once the queue is seen empty.
W_DrainEmpty ==
    /\ wpc = "drain_empty"
    /\ IF ~empty(habitat_upload_queue)
       THEN wpc' = "drain_get" /\ UNCHANGED << warnings, survivors >>
       ELSE /\ wpc' = "upload"
            /\ warnings' = warnings + 1
            /\ survivors' = Append(survivors, sentence.id)
    /\ UNCHANGED << habitat_upload_queue, habitat_uploader_running, inhibit, sentence,
                    retries, responses, uplog, removed, passed, observedFull,
                    drainFrom, discarded, producerVars, mainVars >>
    /\ UNCHANGED << listenerVars, guiVars >>

\* Line 178: sentence = get(), inside the drain loop.
W_DrainGet ==
    /\ wpc = "drain_get"
    /\ Len(habitat_upload_queue) > 0
    /\ LET g == get(habitat_upload_queue)
       IN  /\ sentence' = g.item
           /\ habitat_upload_queue' = g.queue
           /\ removed' = Append(removed, g.item)
    /\ discarded' = discarded \cup {removed[i].id : i \in drainFrom + 1 .. Len(removed)}
    /\ wpc' = "drain_empty"
    /\ UNCHANGED << habitat_uploader_running, inhibit, retries, responses, uplog,
                    passed, warnings, observedFull, drainFrom, survivors, producerVars, mainVars >>
    /\ UNCHANGED << listenerVars, guiVars >>

\* Line 183: sentence = get(), the first item of the queue.
W_Get ==
    /\ wpc = "get"
    /\ Len(habitat_upload_queue) > 0
    /\ LET g == get(habitat_upload_queue)
       IN  /\ sentence' = g.item
           /\ habitat_upload_queue' = g.queue
           /\ removed' = Append(removed, g.item)
    /\ wpc' = "upload"
    /\ UNCHANGED << habitat_uploader_running, inhibit, retries, responses, uplog,
                    passed, warnings, observedFull, drainFrom, discarded, survivors,
                    producerVars, mainVars >>
    /\ UNCHANGED << listenerVars, guiVars >>

\* ------------------------------------------------------------------------
\* HabitatUploader.habitat_upload
\* ------------------------------------------------------------------------

\* Lines 186 and 110-133: the call, sentence.encode('ascii') (which raises
\* UnicodeEncodeError outside any try block, ending the thread), _retries = 0.
U_Call ==
    /\ wpc = "upload"
    /\ passed' = Append(passed, sentence)
    /\ retries' = 0
    /\ responses' = <<>>
    /\ uplog' = <<>>
    /\ wpc' = IF IsAscii(sentence.s) THEN "put" ELSE "crashed"
    /\ UNCHANGED << habitat_upload_queue, habitat_uploader_running, inhibit, sentence,
                    removed, warnings, observedFull, drainFrom, discarded, survivors,
                    producerVars, mainVars >>
    /\ UNCHANGED << listenerVars, guiVars >>

\* 201 handled by the conflict branch: only 403 counts as success.
OnOutcome_retry201(o) ==
    IF o.kind = "exception" THEN [again |-> FALSE, inc |-> 0, log |-> "upload_failed"]
    ELSE IF o.status_code = 403
         THEN [again |-> FALSE, inc |-> 0, log |-> "success"]
    ELSE IF o.status_code = 409 \/ o.status_code = 201
         THEN [again |-> TRUE, inc |-> 1, log |-> "conflict"]
    ELSE [again |-> FALSE, inc |-> 0, log |-> "error_status"]

\* Exceptions and unexpected status codes retried like conflicts.
OnOutcome_retryErrors(o) ==
    IF o.kind = "exception" THEN [again |-> TRUE, inc |-> 1, log |-> "upload_failed"]
    ELSE IF o.status_code = 201 \/ o.status_code = 403
         THEN [again |-> FALSE, inc |-> 0, log |-> "success"]
    ELSE IF o.status_code = 409 THEN [again |-> TRUE, inc |-> 1, log |-> "conflict"]
    ELSE [again |-> TRUE, inc |-> 1, log |-> "error_status"]

\* Lines 143-159: what one PUT outcome does to the loop:
\* [again: the loop goes on, inc: _retries += 1, log: the record logged].
OnOutcome(o) ==
    IF o.kind = "exception" THEN [again |-> FALSE, inc |-> 0, log |-> "upload_failed"]
    ELSE IF o.status_code = 201 \/ o.status_code = 403
         THEN [again |-> FALSE, inc |-> 0, log |-> "success"]
    ELSE IF o.status_code = 409 THEN [again |-> TRUE, inc |-> 1, log |-> "conflict"]
    ELSE [again |-> FALSE, inc |-> 0, log |-> "error_status"]

\* A loop test that allows one attempt too many.
LoopTest_offByOne(n) == n <= upload_retries

\* Line 139: the loop test.
LoopTest(n) == n < upload_retries

\* Lines 139-159: one pass of the retry loop, or its exit at the loop test.
U_Put ==
    /\ wpc = "put"
    /\ \/ /\ LoopTest(retries)
          /\ \E o \in PutOutcomes :
                LET r == OnOutcome(o)
                IN  /\ responses' = Append(responses, o)
                    /\ uplog' = Append(uplog, r.log)
                    /\ retries' = retries + r.inc
                    /\ wpc' = IF r.again THEN "put" ELSE "check_retries"
       \/ /\ ~LoopTest(retries)
          /\ wpc' = "check_retries"
          /\ UNCHANGED << responses, uplog, retries >>
    /\ UNCHANGED << habitat_upload_queue, habitat_uploader_running, inhibit, sentence,
                    removed, passed, warnings, observedFull, drainFrom, discarded,
                    survivors, producerVars, mainVars >>
    /\ UNCHANGED << listenerVars, guiVars >>

\* Lines 161-162: the unresolved-conflict error.
U_CheckRetries ==
    /\ wpc = "check_retries"
    /\ uplog' = IF retries = upload_retries THEN Append(uplog, "unresolved") ELSE uplog
    /\ wpc' = "return"
    /\ UNCHANGED << habitat_upload_queue, habitat_uploader_running, inhibit, sentence,
                    retries, responses, removed, passed, warnings, observedFull,
                    drainFrom, discarded, survivors, producerVars, mainVars >>
    /\ UNCHANGED << listenerVars, guiVars >>

\* Line 164: return to the thread's loop; the call's locals go away.
U_Return ==
    /\ wpc = "return"
    /\ wpc' = "while"
    /\ retries' = 0
    /\ responses' = <<>>
    /\ uplog' = <<>>
    /\ UNCHANGED << habitat_upload_queue, habitat_uploader_running, inhibit, sentence,
                    removed, passed, warnings, observedFull, drainFrom, discarded,
                    survivors, producerVars, mainVars >>
    /\ UNCHANGED << listenerVars, guiVars >>

\* ------------------------------------------------------------------------
\* Specification of the uploader: a producer calling add(), close(), and the
\* upload thread.
\* ------------------------------------------------------------------------

Worker ==
    \/ W_Start \/ W_While \/ W_IfQsize \/ W_Sleep \/ W_IfFull
    \/ W_DrainEmpty \/ W_DrainGet \/ W_Get
    \/ U_Call \/ U_Put \/ U_CheckRetries \/ U_Return

Next ==
    \/ \E s \in Sentences : Add(s)
    \/ Close
    \/ Worker

Spec == Init /\ [][Next]_vars

\* The upload thread is a daemon thread of its own (lines 101-103): the
\* interpreter keeps scheduling it, time.sleep(0.1) and every requests.put
\* return (timeout = self.upload_timeout), so a step it can take is taken.
\* For termination the sentences differ only in whether line 110 can encode
\* them: one that it can and one that it cannot.
FairSentences == { <<36, 36, 65>>, <<36, 36, 233>> }

NextFair ==
    \/ \E s \in FairSentences : Add(s)
    \/ Close
    \/ Worker

SpecFair == Init /\ [][NextFair]_vars /\ WF_vars(Worker)

\* ------------------------------------------------------------------------
\* Helpers of the properties
\* ------------------------------------------------------------------------

IsPrefix(a, b) == Len(a) <= Len(b) /\ SubSeq(b, 1, Len(a)) = a

Last(s) == s[Len(s)]

PassedIds == {passed[i].id : i \in 1..Len(passed)}

IsAddStep == addCalls' = addCalls + 1

R409 == Response(409)
R201 == Response(201)

IsSuccess(o) == o.kind = "response" /\ o.status_code \in {201, 403}
IsConflict(o) == o.kind = "response" /\ o.status_code = 409
IsFailure(o) == ~IsSuccess(o) /\ ~IsConflict(o)

UploadOver == wpc \in {"check_retries", "return"}

\* ------------------------------------------------------------------------
\* Properties of the uploader
\* ------------------------------------------------------------------------

\* C1: add() on a full queue returns (it is enabled, it does not wait for
\* room), logs an error, drops the new sentence and leaves the queue as it
\* was; no add() step ever removes or displaces a queued entry.
C1_AddOnFullQueueDrops ==
    [][ IsAddStep =>
          /\ IsPrefix(habitat_upload_queue, habitat_upload_queue')
          /\ (~inhibit /\ Len(habitat_upload_queue) = queue_size) =>
                /\ habitat_upload_queue' = habitat_upload_queue
                /\ enqueued' = enqueued
                /\ lastAdd' = [id |-> addCalls + 1, result |-> "error"] ]_vars

C1_Witness ==
    /\ lastAdd.result = "error"
    /\ Len(habitat_upload_queue) = queue_size

\* C2: an overflow drain ends only on an empty queue, having removed every
\* entry enqueued so far; it logs the warning, and the entry then handed to
\* habitat_upload is the last one removed, which is the last one enqueued; that
\* entry is handed over once, and no entry overwritten during a drain is ever
\* handed to habitat_upload.
C2_DrainKeepsNewest ==
    /\ [][ (wpc = "drain_empty" /\ wpc' = "upload") =>
              /\ habitat_upload_queue = <<>>
              /\ removed = enqueued
              /\ sentence = Last(removed)
              /\ sentence = Last(enqueued)
              /\ warnings' = warnings + 1 ]_vars
    /\ [][ (wpc = "upload" /\ wpc' # "upload") => passed' = Append(passed, sentence) ]_vars
    /\ [](/\ discarded \cap PassedIds = {}
          /\ Cardinality(PassedIds) = Len(passed)
          /\ Len(survivors) = warnings
          /\ \A i \in 1..Len(survivors) :
                \/ survivors[i] \in PassedIds
                \/ i = Len(survivors) /\ wpc = "upload" /\ sentence.id = survivors[i])

C2_Witness ==
    /\ Len(survivors) = 1
    /\ Cardinality(discarded) = queue_size
    /\ survivors[1] \in PassedIds
    /\ Len(passed) = 1

\* C3 as stated: queue_size + 1 entries pushed before the worker runs, none
\* after; the entry uploaded is the last one pushed.
C3_Original ==
    (~inhibit /\ pausedAdds = queue_size + 1 /\ addCalls = queue_size + 1 /\ passed # <<>>)
        => passed[1].id = queue_size + 1

\* C3 as amended: queue_size + 1 entries pushed before the worker runs, none
\* after; the last push is dropped by add() with an error, and once the worker
\* has emptied the queue exactly one entry has been handed to habitat_upload,
\* the queue_size-th one pushed, with the warning logged once.
C3_OverflowKeepsLastQueued ==
    (~inhibit /\ pausedAdds = queue_size + 1 /\ addCalls = queue_size + 1) =>
        /\ lastAdd = [id |-> queue_size + 1, result |-> "error"]
        /\ Len(passed) <= 1
        /\ passed # <<>> => (passed[1].id = queue_size /\ warnings = 1)
        /\ (habitat_upload_queue = <<>> /\ wpc \notin {"drain_empty", "upload"})
              => Len(passed) = 1

C3_Witness ==
    /\ ~inhibit
    /\ pausedAdds = queue_size + 1
    /\ addCalls = queue_size + 1
    /\ wpc = "sleep"
    /\ Len(passed) = 1
    /\ warnings = 1

\* C4: as long as the worker has never seen the queue full, the entries got
\* from the queue and those handed to habitat_upload are the enqueued ones, in
\* the order of enqueueing, none skipped.
C4_FifoWithoutOverflow ==
    ~observedFull =>
        /\ IsPrefix(passed, enqueued)
        /\ enqueued = removed \o habitat_upload_queue
        /\ removed = passed \o (IF wpc = "upload" THEN <<sentence>> ELSE <<>>)

C4_Witness ==
    /\ ~observedFull
    /\ Len(passed) = MaxAdds

\* C5: the PUTs of one sentence end at the first 201 or 403: every earlier
\* response is a 409, the call is past its loop, it logged one success, and
\* the sentence is not in the queue; after 409 then 201 no third PUT follows.
C5_SuccessEndsUpload ==
    /\ [](\A n \in 1..Len(responses) :
            IsSuccess(responses[n]) =>
                /\ n = Len(responses)
                /\ \A i \in 1..(n - 1) : IsConflict(responses[i])
                /\ UploadOver
                /\ Cardinality({i \in 1..Len(uplog) : uplog[i] = "success"}) = 1
                /\ \A i \in 1..Len(habitat_upload_queue) :
                      habitat_upload_queue[i].id # sentence.id)
    /\ [][ responses = <<R409, R201>> => responses' \in {responses, <<>>} ]_vars

C5_Witness ==
    /\ responses = <<R409, R201>>
    /\ wpc = "return"

\* C6: one habitat_upload call issues at most upload_retries PUTs; when all of
\* them answer 409 it issues exactly upload_retries, logs the unresolved
\* conflict and returns, the sentence being neither queued nor retried.
C6_RetriesBounded ==
    /\ Len(responses) <= upload_retries
    /\ (wpc = "return" /\ \A i \in 1..Len(responses) : IsConflict(responses[i])) =>
          /\ Len(responses) = upload_retries
          /\ Last(uplog) = "unresolved"
          /\ \A i \in 1..Len(habitat_upload_queue) :
                habitat_upload_queue[i].id # sentence.id

C6_Witness ==
    /\ wpc = "return"
    /\ Len(responses) = upload_retries
    /\ \A i \in 1..Len(responses) : IsConflict(responses[i])

\* C7: a PUT that raises, or answers anything but 201, 403 or 409, is the
\* last PUT of its call, whatever number of 409s came before: an error is
\* logged and the loop is left.
C7_FailureEndsUpload ==
    /\ [](\A n \in 1..Len(responses) :
            IsFailure(responses[n]) =>
                /\ n = Len(responses)
                /\ UploadOver
                /\ uplog[n] \in {"upload_failed", "error_status"}
                /\ Last(uplog) = uplog[n])
    /\ [][ (responses # <<>> /\ IsFailure(Last(responses)))
              => responses' \in {responses, <<>>} ]_vars

C7_Witness ==
    /\ responses = <<R409, R409, Raised>>
    /\ wpc = "return"

\* C8 as stated: while the run flag is true the upload thread is alive,
\* whatever sentence was enqueued and whatever the upload's outcome.
C8_WorkerNeverDies ==
    habitat_uploader_running => wpc \notin {"stopped", "crashed"}

\* ------------------------------------------------------------------------
\* handle_ukhas and handle_binary
\* ------------------------------------------------------------------------

\* Line 623 catches TypeError, which is what the hex codec raises under
\* Python 2; under Python 3 it raises binascii.Error or ValueError.
HexErrorCaught == ~python3

\* A handle_binary that enqueues the sentence before it relays and logs it.
BinarySteps_addFirst == << "add", "ozimux_upload", "send_payload_summary", "log_file.write" >>

\* Lines 636-645: the calls handle_binary makes on a decoded sentence, in
\* the order of its statements.
BinarySteps == << "ozimux_upload", "send_payload_summary", "log_file.write", "add" >>

\* Lines 601-609: the calls handle_ukhas makes.
UkhasSteps == << "ozimux_upload", "add" >>

\* ozimux_upload(sentence), the send ending as o.
ozimux_upload(a, o) ==
    /\ ozi_out' = Sent(ozi_out, a.ozi.datagram, o)
    /\ unclosed' = unclosed + Unclosed(o)

\* Lines 595-612.
handle_ukhas(data) ==
    LET a == analysis[data]
    IN  /\ \E o \in OutcomesOf(a.ozi.send) : ozimux_upload(a, o)
        /\ add(data)
        /\ lastIn' = [n |-> reads', data |-> data, path |-> "ukhas", hex |-> "none",
                      decode |-> "not_called", raised |-> FALSE, steps |-> UkhasSteps]
        /\ UNCHANGED << summary_out, log_file, decodeErrors, mpc >>

\* Lines 615-647.
handle_binary(data) ==
    LET a == analysis[data]
        dec == a.decoded
    IN  IF a.hex # "none"
        THEN /\ mpc' = IF HexErrorCaught THEN mpc ELSE "crashed"
             /\ lastIn' = [n |-> reads', data |-> data, path |-> "binary",
                           hex |-> a.hex, decode |-> "not_called",
                           raised |-> ~HexErrorCaught, steps |-> <<>>]
             /\ UNCHANGED << ozi_out, summary_out, log_file, unclosed, decodeErrors,
                             habitat_upload_queue, producerVars >>
        ELSE /\ lastIn' = [n |-> reads', data |-> data, path |-> "binary",
                           hex |-> "none", decode |-> dec.error, raised |-> FALSE,
                           steps |-> IF dec.error = "none" THEN BinarySteps ELSE <<>>]
             /\ mpc' = mpc
             /\ IF dec.error = "none"
                THEN /\ \E o1 \in OutcomesOf(a.ozi.send),
                           o2 \in OutcomesOf(SummaryCheck(summary_port, dec.telemetry) = "send") :
                            /\ ozi_out' = Sent(ozi_out, a.ozi.datagram, o1)
                            /\ summary_out' = Sent(summary_out, dec.telemetry, o2)
                            /\ unclosed' = unclosed + Unclosed(o1) + Unclosed(o2)
                     /\ log_file' = Append(log_file, dec.sentence)
                     /\ add(dec.sentence)
                     /\ UNCHANGED decodeErrors
                ELSE /\ decodeErrors' = decodeErrors \cup {dec.error}
                     /\ UNCHANGED << ozi_out, summary_out, log_file, unclosed,
                                     habitat_upload_queue, producerVars >>

\* Lines 873-876.
Dispatch(data) ==
    IF StartsWith(data, <<Dollar, Dollar>>)
    THEN handle_ukhas(data)
    ELSE handle_binary(data)

\* ------------------------------------------------------------------------
\* main: the loop of lines 839-879 and the shutdown of lines 881-884
\* ------------------------------------------------------------------------

Reading == mpc = "read" /\ reads < MaxReads

uploaderRest == << inhibit, workerVars, stdin_mode, python3, summary_port, analysis >>

\* Lines 881-884, after the loop: habitat_uploader.close(), log_file.close()
\* and the return.
Shutdown ==
    /\ habitat_uploader_running' = FALSE
    /\ mpc' = "done"

\* Lines 843-859: recvfrom times out (or raises), data is None, `continue`.
M_RecvTimeout ==
    /\ Reading /\ ~stdin_mode
    /\ reads' = reads + 1
    /\ lastIn' = [n |-> reads', data |-> <<>>, path |-> "timeout", hex |-> "none",
                  decode |-> "not_called", raised |-> FALSE, steps |-> <<>>]
    /\ UNCHANGED << mpc, ozi_out, summary_out, log_file, unclosed, decodeErrors,
                    habitat_upload_queue, habitat_uploader_running, producerVars,
                    uploaderRest >>
    /\ UNCHANGED << listenerVars, guiVars >>

\* One iteration on a datagram d: decode('ascii') at line 855 sits outside
\* every try but the loop's `except KeyboardInterrupt`; '' ends the loop at
\* line 863 and main shuts down; anything else is stripped and dispatched.
M_Recv(d) ==
    /\ Reading /\ ~stdin_mode
    /\ reads' = reads + 1
    /\ IF ~IsAscii(d)
       THEN /\ mpc' = "crashed"
            /\ lastIn' = [n |-> reads', data |-> d, path |-> "undecodable",
                          hex |-> "none", decode |-> "not_called", raised |-> TRUE, steps |-> <<>>]
            /\ UNCHANGED << ozi_out, summary_out, log_file, unclosed, decodeErrors,
                            habitat_upload_queue, habitat_uploader_running,
                            producerVars >>
       ELSE IF d = <<>>
       THEN /\ Shutdown
            /\ lastIn' = [n |-> reads', data |-> d, path |-> "eof",
                          hex |-> "none", decode |-> "not_called", raised |-> FALSE, steps |-> <<>>]
            /\ UNCHANGED << ozi_out, summary_out, log_file, unclosed, decodeErrors,
                            habitat_upload_queue, producerVars >>
       ELSE Dispatch(RStrip(d)) /\ UNCHANGED habitat_uploader_running
    /\ UNCHANGED uploaderRest
    /\ UNCHANGED << listenerVars, guiVars >>

\* One iteration on a line d of standard input: readline returns it with its
\* newline, the test of line 863 is false in stdin mode.
M_ReadLine(d) ==
    /\ Reading /\ stdin_mode
    /\ reads' = reads + 1
    /\ Dispatch(RStrip(d \o <<Newline>>))
    /\ UNCHANGED << habitat_uploader_running, uploaderRest >>
    /\ UNCHANGED << listenerVars, guiVars >>

\* One iteration at the end of standard input: readline returns ''.
M_ReadEOF ==
    /\ Reading /\ stdin_mode
    /\ reads' = reads + 1
    /\ Dispatch(RStrip(<<>>))
    /\ UNCHANGED << habitat_uploader_running, uploaderRest >>
    /\ UNCHANGED << listenerVars, guiVars >>

\* KeyboardInterrupt in the loop (lines 847-848, 878-879): the loop is left and
\* main shuts down.
M_Interrupt ==
    /\ mpc = "read"
    /\ Shutdown
    /\ UNCHANGED << reads, lastIn, ozi_out, summary_out, log_file, unclosed,
                    decodeErrors, habitat_upload_queue, producerVars, uploaderRest >>
    /\ UNCHANGED << listenerVars, guiVars >>

\* main under every configuration: --stdin or UDP, --noupload or not, summary
\* output enabled or not, either interpreter.
InitIngest ==
    /\ InitOutputs
    /\ InitUploader
    /\ InitListener
    /\ InitGui /\ udp_mode = FALSE
    /\ stdin_mode \in BOOLEAN
    /\ python3 \in BOOLEAN
    /\ summary_port \in {SummaryDisabled, SummaryPortDefault}

NextIngest ==
    \/ M_RecvTimeout
    \/ \E d \in InputLines : M_Recv(d)
    \/ \E d \in InputLines : M_ReadLine(d)
    \/ M_ReadEOF
    \/ M_Interrupt

SpecIngest == InitIngest /\ [][NextIngest]_vars

\* main fed with lines of the ASCII path only, over UDP or standard input,
\* with or without --noupload.
InitAscii ==
    /\ InitOutputs
    /\ InitUploader
    /\ InitListener
    /\ InitGui /\ udp_mode = FALSE
    /\ stdin_mode \in BOOLEAN
    /\ python3 = TRUE
    /\ summary_port = SummaryPortDefault

NextAscii ==
    \/ \E d \in AsciiLines : M_Recv(d)
    \/ \E d \in AsciiLines : M_ReadLine(d)
    \/ M_Interrupt

SpecAscii == InitAscii /\ [][NextAscii]_vars

\* ------------------------------------------------------------------------
\* main reading standard input up to its end
\* ------------------------------------------------------------------------

\* --stdin: lines that are not empty, then the end of the input.
InitStdin ==
    /\ InitOutputs
    /\ InitUploader
    /\ InitListener
    /\ InitGui /\ udp_mode = FALSE
    /\ stdin_mode = TRUE
    /\ python3 = TRUE
    /\ summary_port = SummaryDisabled

NextStdin ==
    \/ \E d \in { LineGood, LineUkhasBad } : M_ReadLine(d)
    \/ M_ReadEOF
    \/ M_Interrupt

SpecStdin == InitStdin /\ [][NextStdin]_vars

\* ------------------------------------------------------------------------
\* main on valid packets with and without a position
\* ------------------------------------------------------------------------

\* LineGood with latitude and longitude 0.0, and with latitude 0.0 only.
LineZeroPos ==
    << 48, 49, 50, 65, 48, 48, 48, 51, 48, 52, 48, 53, 48, 48, 48, 48,
       48, 48, 48, 48, 48, 48, 48, 48, 48, 48, 48, 48, 56, 56, 49, 51,
       48, 51, 48, 55, 70, 66, 67, 56, 70, 51, 65, 49 >>

LineZeroLat ==
    << 48, 49, 50, 65, 48, 48, 48, 51, 48, 52, 48, 53, 48, 48, 48, 48,
       48, 48, 48, 48, 55, 69, 53, 56, 65, 52, 52, 49, 56, 56, 49, 51,
       48, 51, 48, 55, 70, 66, 67, 56, 53, 55, 56, 69 >>

\* LineGood with the hour byte 24: the sentence carries the time 24:04:05.
\*   012A00180405A7F921417E58A44188130307FBC80BF7
LineHour24 ==
    << 48, 49, 50, 65, 48, 48, 49, 56, 48, 52, 48, 53, 65, 55, 70, 57,
       50, 49, 52, 49, 55, 69, 53, 56, 65, 52, 52, 49, 56, 56, 49, 51,
       48, 51, 48, 55, 70, 66, 67, 56, 48, 66, 70, 55 >>

SummaryLines == { LineGood, LineZeroPos, LineZeroLat, LineHour24 }

SummaryTable == [data \in SummaryLines |-> Analyse(data)]

\* UDP input, summary output enabled or not.
InitSummary ==
    /\ analysis = SummaryTable
    /\ mpc = "read"
    /\ reads = 0
    /\ ozi_out = <<>>
    /\ summary_out = <<>>
    /\ log_file = <<>>
    /\ unclosed = 0
    /\ lastIn = NoInput
    /\ decodeErrors = {}
    /\ InitUploader
    /\ InitListener
    /\ InitGui /\ udp_mode = FALSE
    /\ stdin_mode = FALSE
    /\ python3 = TRUE
    /\ summary_port \in {SummaryDisabled, SummaryPortDefault}

NextSummary ==
    \/ \E d \in SummaryLines : M_Recv(d)
    \/ M_Interrupt

SpecSummary == InitSummary /\ [][NextSummary]_vars

\* ------------------------------------------------------------------------
\* decode_horus_binary called on records with one byte changed
\* ------------------------------------------------------------------------

\* The bytes of the three valid packets.
GoodRecords == { HexDecode(l).bytes : l \in SummaryLines }

\* Values put in place of the byte b: each of its bits flipped, the next value
\* and the complement.
TamperValues(b) == { Xor(b, Pow2(k)) : k \in 0..7 } \cup { (b + 1) % 256, 255 - b }

TamperedRecords ==
    UNION { { [r EXCEPT ![i] = v] : v \in TamperValues(r[i]) } :
              r \in GoodRecords, i \in 1..RecordSize }

\* The valid packets without their last byte, and without their first.
TruncatedRecords ==
    { SubSeq(r, 1, Len(r) - 1) : r \in GoodRecords }
        \cup { SubSeq(r, 2, Len(r)) : r \in GoodRecords }

DecodeInputs == GoodRecords \cup TamperedRecords \cup TruncatedRecords

\* The argument of the call is drawn from DecodeInputs.
InitDecode ==
    /\ lastIn \in { [NoInput EXCEPT !.data = d, !.path = "pending"] : d \in DecodeInputs }
    /\ analysis = <<>>
    /\ mpc = "read"
    /\ reads = 0
    /\ ozi_out = <<>>
    /\ summary_out = <<>>
    /\ log_file = <<>>
    /\ unclosed = 0
    /\ decodeErrors = {}
    /\ InitUploader
    /\ InitListener
    /\ InitGui /\ udp_mode = FALSE
    /\ inhibit = FALSE
    /\ stdin_mode = FALSE
    /\ python3 = TRUE
    /\ summary_port = SummaryPortDefault

\* decode_horus_binary(lastIn.data) (lines 528-591): the sentence returned is
\* kept in log_file, the reason of a failure in lastIn.decode.
CallDecode ==
    /\ lastIn.path = "pending"
    /\ \E dec \in { decode_horus_binary(lastIn.data) } :
          /\ lastIn' = [lastIn EXCEPT !.n = 1, !.path = "decode", !.decode = dec.error]
          /\ log_file' = IF dec.error = "none" THEN << dec.sentence >> ELSE log_file
          /\ decodeErrors' = IF dec.error = "none" THEN decodeErrors
                             ELSE decodeErrors \cup { dec.error }
    /\ UNCHANGED << habitat_upload_queue, habitat_uploader_running, inhibit, workerVars,
                    producerVars, mpc, stdin_mode, python3, summary_port, reads,
                    ozi_out, summary_out, unclosed, analysis >>
    /\ UNCHANGED << listenerVars, guiVars >>

NextDecode == CallDecode

SpecDecode == InitDecode /\ [][NextDecode]_vars

\* ------------------------------------------------------------------------
\* main and the upload thread together
\* ------------------------------------------------------------------------

\* One ASCII sentence and one binary packet, both of which reach add().
SystemLines == { LineUkhasBad, LineGood }

\* UDP input, upload enabled, no payload summary.
InitSystem ==
    /\ InitOutputs
    /\ InitUploader
    /\ InitListener
    /\ InitGui /\ udp_mode = FALSE
    /\ inhibit = FALSE
    /\ stdin_mode = FALSE
    /\ python3 = TRUE
    /\ summary_port = SummaryDisabled

NextSystem ==
    \/ \E d \in SystemLines : M_Recv(d)
    \/ M_Interrupt
    \/ Worker

SpecSystem == InitSystem /\ [][NextSystem]_vars

\* ------------------------------------------------------------------------
\* add() and ozimux_upload() called on arbitrary strings
\* ------------------------------------------------------------------------

\* Longest string passed to add(), and number of calls in one behaviour.
MaxLen == 4
MaxCalls == 1

\* Strings of '$', 'A' and newline.
AddChars == { Dollar, 65, Newline }
AddStrings == UNION { [1..n -> AddChars] : n \in 0..MaxLen }

\* "P,7,12:00:00,1.5,2.5,10"
TelemGood ==
    << 80, 44, 55, 44, 49, 50, 58, 48, 48, 58, 48, 48, 44, 49, 46, 53, 44, 50, 46, 53, 44, 49, 48 >>

\* "P,7,12:00:00"
TelemFewFields ==
    << 80, 44, 55, 44, 49, 50, 58, 48, 48, 58, 48, 48 >>

\* "P,7,12:00:00,x,2.5,10"
TelemBadLat ==
    << 80, 44, 55, 44, 49, 50, 58, 48, 48, 58, 48, 48, 44, 120, 44, 50, 46, 53, 44, 49, 48 >>

\* "P,7,12:00:00,1.5,2.5,1.0"
TelemBadAlt ==
    << 80, 44, 55, 44, 49, 50, 58, 48, 48, 58, 48, 48, 44, 49, 46, 53, 44, 50, 46, 53, 44, 49, 46, 48 >>

\* "P,7,25:00:00,1.5,2.5,10"
TelemBadTime ==
    << 80, 44, 55, 44, 50, 53, 58, 48, 48, 58, 48, 48, 44, 49, 46, 53, 44, 50, 46, 53, 44, 49, 48 >>

\* "P,7,12:00:00,0.0,2.5,10"
TelemZeroLat ==
    << 80, 44, 55, 44, 49, 50, 58, 48, 48, 58, 48, 48, 44, 48, 46, 48, 44, 50, 46, 53, 44, 49, 48 >>

\* "P,7,12:00:00,1.5,2.5,65536"
TelemHighAlt ==
    << 80, 44, 55, 44, 49, 50, 58, 48, 48, 58, 48, 48, 44, 49, 46, 53, 44, 50, 46, 53, 44, 54, 53, 53, 51, 54 >>

\* "P,7,12:00:00,1.5,2.5,-1"
TelemNegAlt ==
    << 80, 44, 55, 44, 49, 50, 58, 48, 48, 58, 48, 48, 44, 49, 46, 53, 44, 50, 46, 53, 44, 45, 49 >>

OziTelems ==
    { <<>>, TelemGood, TelemFewFields, TelemBadLat, TelemBadAlt, TelemBadTime,
      TelemZeroLat, TelemHighAlt, TelemNegAlt }

\* No '$', one, two, three, and two after a blank.
OziPrefixes ==
    { <<>>, <<Dollar>>, <<Dollar, Dollar>>, <<Dollar, Dollar, Dollar>>,
      <<32, Dollar, Dollar>> }

\* The telemetry t without '*', with its own checksum, and with another one.
OziTails(t) ==
    { t, t \o <<Star>> \o crc16_ccitt(t), t \o <<Star, Zero, Zero, Zero, Zero>> }

\* "P,7,12:00:00,1.5,0.0,10"
TelemZeroLon ==
    << 80, 44, 55, 44, 49, 50, 58, 48, 48, 58, 48, 48, 44, 49, 46, 53, 44, 48, 46, 48, 44, 49, 48 >>

\* "P,7,12:00:00,1.5,2.5,0"
TelemAltZero ==
    << 80, 44, 55, 44, 49, 50, 58, 48, 48, 58, 48, 48, 44, 49, 46, 53, 44, 50, 46, 53, 44, 48 >>

\* "P,7,12:00:00,1.5,2.5,65535"
TelemAltMax ==
    << 80, 44, 55, 44, 49, 50, 58, 48, 48, 58, 48, 48, 44, 49, 46, 53, 44, 50, 46, 53, 44, 54, 53, 53, 51, 53 >>

\* A zero longitude and the two ends of the altitude range, as '$$' sentences
\* with their own checksums.
OziEdgeStrings ==
    { <<Dollar, Dollar>> \o t \o <<Star>> \o crc16_ccitt(t) :
        t \in { TelemZeroLon, TelemAltZero, TelemAltMax } }

\* str.lower() and str.upper() on ASCII.
Lower(s) == [i \in 1..Len(s) |-> IF s[i] \in 65..90 THEN s[i] + 32 ELSE s[i]]
Upper(s) == [i \in 1..Len(s) |-> IF s[i] \in 97..122 THEN s[i] - 32 ELSE s[i]]

\* The valid sentence with its checksum in lowercase hex digits ("81d6").
OziLowerStrings ==
    { p \o TelemGood \o <<Star>> \o Lower(crc16_ccitt(TelemGood)) : p \in OziPrefixes }

OziStrings ==
    { p \o v : p \in OziPrefixes, v \in UNION { OziTails(t) : t \in OziTelems } }
        \cup OziLowerStrings \cup OziEdgeStrings

\* What ozimux_upload does with each of OziStrings.
CallTable == [s \in OziStrings |-> [ozi |-> OziCheck(s)]]

InitCalls ==
    /\ analysis = CallTable
    /\ mpc = "read"
    /\ reads = 0
    /\ ozi_out = <<>>
    /\ summary_out = <<>>
    /\ log_file = <<>>
    /\ unclosed = 0
    /\ lastIn = NoInput
    /\ decodeErrors = {}
    /\ InitUploader
    /\ InitListener
    /\ InitGui /\ udp_mode = FALSE
    /\ stdin_mode = FALSE
    /\ python3 = TRUE
    /\ summary_port = SummaryPortDefault

\* uploader.add(s) on a string s (lines 195-214).
CallAdd(s) ==
    /\ lastIn.n < MaxCalls
    /\ add(s)
    /\ lastIn' = [n |-> lastIn.n + 1, data |-> s, path |-> "add", hex |-> "none",
                  decode |-> "not_called", raised |-> FALSE, steps |-> <<>>]
    /\ UNCHANGED << habitat_uploader_running, inhibit, workerVars, mpc, stdin_mode,
                    python3, summary_port, reads, ozi_out, summary_out, log_file,
                    unclosed, decodeErrors, analysis >>
    /\ UNCHANGED << listenerVars, guiVars >>

\* ozimux_upload(s) on a string s (lines 384-442): whatever is raised between
\* lines 388 and 438 is caught at line 440, and the function returns.
CallOzimux(s) ==
    /\ lastIn.n < MaxCalls
    /\ \E o \in OutcomesOf(analysis[s].ozi.send) : ozimux_upload(analysis[s], o)
    /\ lastIn' = [n |-> lastIn.n + 1, data |-> s, path |-> "ozimux", hex |-> "none",
                  decode |-> "not_called", raised |-> FALSE, steps |-> <<>>]
    /\ UNCHANGED << habitat_upload_queue, habitat_uploader_running, inhibit,
                    workerVars, producerVars, mpc, stdin_mode, python3, summary_port,
                    reads, summary_out, log_file, decodeErrors, analysis >>
    /\ UNCHANGED << listenerVars, guiVars >>

NextCalls ==
    \/ \E s \in AddStrings : CallAdd(s)
    \/ \E s \in OziStrings : CallOzimux(s)

SpecCalls == InitCalls /\ [][NextCalls]_vars

\* ------------------------------------------------------------------------
\* Properties of the ingest loop
\* ------------------------------------------------------------------------

\* The step is an iteration of the main loop that called handle_binary.
IsBinaryStep == lastIn'.n = lastIn.n + 1 /\ lastIn'.path = "binary"

\* The bytes a dispatched line stands for, <<>> when it is not hexadecimal.
BytesOf(data) == HexDecode(data).bytes

\* The three failures of the decoder, read off the bytes: a length other than
\* the layout's, a last field (little-endian) that is not the CRC of the
\* bytes before it, a first byte that is not a key of the payload table.
WrongLength(b) == Len(b) # RecordSize
WrongChecksum(b) ==
    /\ Len(b) = RecordSize
    /\ Crc16(SubSeq(b, 1, RecordSize - 2)) # b[RecordSize - 1] + 256 * b[RecordSize]
UnknownId(b) ==
    /\ Len(b) = RecordSize
    /\ ~WrongChecksum(b)
    /\ b[1] \notin DOMAIN payload_list

FailureKinds ==
    [data \in Dispatched |->
        IF HexDecode(data).error # "none" THEN {}
        ELSE (IF WrongLength(BytesOf(data)) THEN {"struct_error"} ELSE {})
             \cup (IF WrongChecksum(BytesOf(data)) THEN {"checksum_mismatch"} ELSE {})
             \cup (IF UnknownId(BytesOf(data)) THEN {"unknown_payload_id"} ELSE {})]

\* C9: no input ends the main loop by an exception: whatever line or datagram
\* an iteration reads (not hexadecimal, of odd length, of the wrong number of
\* bytes, not ASCII), main is never left by a failure raised while handling it.
C9_IngestNeverCrashes == mpc # "crashed"

\* C10: when handle_binary is given a line whose bytes have the wrong length,
\* a wrong checksum or an unknown payload id, the decoder returns (None, None)
\* and the iteration sends no position datagram and no summary datagram,
\* writes nothing to the log file and makes no call of add(): the queue is
\* as it was.
C10_FailedDecodeForwardsNothing ==
    [][ IsBinaryStep /\ FailureKinds[lastIn'.data] # {} =>
            /\ Analysis[lastIn'.data].decoded.sentence = None
            /\ Analysis[lastIn'.data].decoded.telemetry = None
            /\ lastIn'.decode \in FailureKinds[lastIn'.data]
            /\ ozi_out' = ozi_out
            /\ summary_out' = summary_out
            /\ log_file' = log_file
            /\ habitat_upload_queue' = habitat_upload_queue
            /\ addCalls' = addCalls
            /\ enqueued' = enqueued
            /\ mpc' = mpc ]_vars

\* Each of the three failures has happened, with upload and the summary output
\* enabled; the last iteration was one of them.
C10_Witness ==
    /\ decodeErrors = {"struct_error", "checksum_mismatch", "unknown_payload_id"}
    /\ ~inhibit
    /\ summary_port # SummaryDisabled
    /\ lastIn.path = "binary"
    /\ lastIn.decode \in decodeErrors

\* The dispatched lines that start with '$$' and that ozimux_upload rejects
\* for their checksum (line 404) or by an exception while splitting and
\* parsing them (lines 398-414, caught at line 440).
InvalidAscii ==
    { d \in Dispatched :
        /\ StartsWith(d, <<Dollar, Dollar>>)
        /\ Analysis[d].ozi.log \in {"crc_fail", "exception"} }

\* C11: a line starting with '$$' that fails validation is dropped: no entry
\* made from it is ever put on the upload queue.
C11_InvalidAsciiNeverQueued ==
    \A i \in 1..Len(enqueued) : enqueued[i].s \notin { Normalize(d) : d \in InvalidAscii }

\* The step is an iteration of the main loop that called handle_ukhas.
IsUkhasStep == lastIn'.n = lastIn.n + 1 /\ lastIn'.path = "ukhas"

\* C12: a line starting with '$$' that passes every test of ozimux_upload
\* has one position datagram sent for it (none only when both sends raise)
\* and, when upload is not inhibited and the queue is not full, one entry put
\* at the back of the queue: the line followed by one newline.
C12_ValidAsciiForwardedOnce ==
    [][ (IsUkhasStep /\ Analysis[lastIn'.data].ozi.send) =>
          /\ \/ /\ Len(ozi_out') = Len(ozi_out) + 1
                /\ unclosed' = unclosed
             \/ /\ ozi_out' = ozi_out
                /\ unclosed' = unclosed + 1
          /\ (~inhibit /\ Len(habitat_upload_queue) < queue_size) =>
                habitat_upload_queue' =
                    Append(habitat_upload_queue,
                           [id |-> addCalls', s |-> lastIn'.data \o <<Newline>>]) ]_vars

\* C23: each UDP emitter closes the socket it opened before it returns, on
\* every outcome of its sends, the failure of both the broadcast and the
\* loopback send included: after any sequence of emits no socket is left
\* without its close() call.
C23_EverySocketClosed == unclosed = 0

\* The emitters called while handling the line lastIn' records: ozimux_upload
\* reaching line 437, send_payload_summary reaching line 480.
EmitsOf(in) ==
    LET a == Analysis[in.data]
    IN  (IF a.ozi.send THEN 1 ELSE 0)
          + (IF /\ in.path = "binary"
                /\ in.decode = "none"
                /\ SummaryCheck(summary_port, a.decoded.telemetry) = "send"
             THEN 1 ELSE 0)

IsHandledStep == lastIn'.n = lastIn.n + 1 /\ lastIn'.path \in {"ukhas", "binary"}

NewOf(out, out2) == SubSeq(out2, Len(out) + 1, Len(out2))

\* C24: an emitter whose broadcast send fails makes one further send, to the
\* loopback address on the same port, and when that fails too it returns
\* normally: each emit ends with exactly one datagram out (to the broadcast
\* address, or to the loopback address after the failure) or with none and
\* the failure logged, and the main loop goes on.
C24_OneLoopbackRetry ==
    [][ (IsHandledStep /\ EmitsOf(lastIn') > 0) =>
           /\ (Len(ozi_out') - Len(ozi_out)) + (Len(summary_out') - Len(summary_out))
                 + (unclosed' - unclosed) = EmitsOf(lastIn')
           /\ Len(ozi_out') - Len(ozi_out) \in {0, 1}
           /\ Len(summary_out') - Len(summary_out) \in {0, 1}
           /\ unclosed' >= unclosed
           /\ \A i \in 1..Len(NewOf(ozi_out, ozi_out')) :
                 /\ NewOf(ozi_out, ozi_out')[i].to \in {"broadcast", "localhost"}
                 /\ NewOf(ozi_out, ozi_out')[i].data = Analysis[lastIn'.data].ozi.datagram
           /\ \A i \in 1..Len(NewOf(summary_out, summary_out')) :
                 NewOf(summary_out, summary_out')[i].to \in {"broadcast", "localhost"}
           /\ ~lastIn'.raised
           /\ mpc' = "read" ]_vars

\* A position datagram has gone to the loopback address after a failed
\* broadcast, another emit has failed twice, and the main loop is reading.
C24_Witness ==
    /\ \E i \in 1..Len(ozi_out) : ozi_out[i].to = "localhost"
    /\ unclosed > 0
    /\ mpc = "read"
    /\ reads >= 2

IsDecodedStep ==
    /\ lastIn'.n = lastIn.n + 1
    /\ lastIn'.path = "binary"
    /\ lastIn'.decode = "none"

\* The sends of send_payload_summary in a step: what the step added to the
\* summary datagrams, and the emits that failed beyond those of ozimux_upload.
SummaryAttempts ==
    LET a        == SummaryTable[lastIn'.data]
        oziFails == IF a.ozi.send /\ ozi_out' = ozi_out THEN 1 ELSE 0
    IN  (Len(summary_out') - Len(summary_out)) + (unclosed' - unclosed) - oziFails

\* C25: send_payload_summary does nothing when the summary port is -1 and
\* nothing when latitude and longitude are both zero; with the port enabled and
\* a coordinate that is not zero it makes one emit of the decoded telemetry.
C25_SummarySkipRules ==
    [][ IsDecodedStep =>
          LET u == SummaryTable[lastIn'.data].decoded.telemetry
              bothZero == F32IsZero(u.latitude) /\ F32IsZero(u.longitude)
          IN  /\ summary_port = SummaryDisabled =>
                    (summary_out' = summary_out /\ SummaryAttempts = 0)
              /\ bothZero => (summary_out' = summary_out /\ SummaryAttempts = 0)
              /\ (summary_port # SummaryDisabled /\ ~bothZero) =>
                    /\ SummaryAttempts = 1
                    /\ \/ summary_out' = summary_out
                       \/ /\ Len(summary_out') = Len(summary_out) + 1
                          /\ Last(summary_out').data = u ]_vars

\* With the port enabled, the packet with a zero latitude and a non-zero
\* longitude has had its summary sent; the position relay has refused it.
C25_Witness ==
    /\ summary_port # SummaryDisabled
    /\ lastIn.data = LineZeroLat
    /\ lastIn.decode = "none"
    /\ Len(summary_out) = 1
    /\ ozi_out = <<>>

IsEofStep == stdin_mode /\ reads' = reads + 1 /\ lastIn'.data = <<>>

\* C28: in stdin mode, when readline() returns the empty string the main
\* loop leaves the loop and shuts down (the uploader is closed); the empty
\* string is not dispatched to the binary handler.
C28_StdinEofEndsLoop ==
    [][ IsEofStep =>
           /\ lastIn'.path = "eof"
           /\ mpc' = "done"
           /\ ~habitat_uploader_running' ]_vars

\* ------------------------------------------------------------------------
\* Properties of the uploader: inhibit, close, and the life of an entry
\* ------------------------------------------------------------------------

\* Positions of the upload thread outside of any dequeue or upload.
IdlePositions == { "start", "while", "if_qsize", "sleep", "stopped" }

\* C15: with the inhibit flag set, add() is a no-op: after any sequence of
\* add() calls the queue is empty, nothing was ever put on it, and the upload
\* thread has removed nothing and started no upload (no HTTP request).
C15_InhibitedAddIsNoOp ==
    inhibit =>
        /\ habitat_upload_queue = <<>>
        /\ enqueued = <<>>
        /\ removed = <<>>
        /\ passed = <<>>
        /\ responses = <<>>
        /\ wpc \in IdlePositions

\* All the calls of add() made, inhibited, and the thread has looked at the
\* queue since.
C15_Witness ==
    /\ inhibit
    /\ addCalls = MaxAdds
    /\ lastAdd.result = "inhibited"
    /\ pausedAdds = 0
    /\ wpc = "sleep"

\* How far the thread is from the loop test of line 172 within one iteration:
\* a step inside an iteration never increases it, and only a step from the
\* loop test into a new iteration does.
IterationRank(pc) ==
    CASE pc \in {"stopped", "crashed"} -> 0
      [] pc = "while" -> 1
      [] pc \in {"sleep", "return"} -> 2
      [] pc = "check_retries" -> 3
      [] pc = "put" -> 4
      [] pc = "upload" -> 5
      [] pc \in {"get", "drain_empty", "drain_get"} -> 6
      [] pc = "if_full" -> 7
      [] pc = "if_qsize" -> 8
      [] pc = "start" -> 9

\* C16: once close() has cleared the running flag, the thread only finishes
\* the iteration it is in (no step takes it into a new one, so at most one more
\* get or drain and one upload), it stops nowhere but at the loop test, so an
\* upload in progress runs to its end, and once stopped it dequeues and uploads
\* nothing: what is in the queue stays there.
C16_CloseEndsAfterIteration ==
    [][ ~habitat_uploader_running =>
           /\ IterationRank(wpc') <= IterationRank(wpc)
           /\ (wpc' = "stopped" /\ wpc # "stopped") => wpc = "while"
           /\ wpc = "while" => wpc' \in {"while", "stopped"}
           /\ wpc = "stopped" =>
                 /\ wpc' = "stopped"
                 /\ removed' = removed
                 /\ passed' = passed
                 /\ responses' = responses
                 /\ IsPrefix(habitat_upload_queue, habitat_upload_queue') ]_vars

\* The thread has stopped after at least one upload, with entries left in the
\* queue.
C16_Witness ==
    /\ ~habitat_uploader_running
    /\ wpc = "stopped"
    /\ passed # <<>>
    /\ habitat_upload_queue # <<>>

\* The thread's function has returned (line 192), or the exception of line
\* 110 has ended it.
ThreadEnded == wpc \in {"stopped", "crashed"}

Distinct(s) == \A i, j \in 1..Len(s) : s[i] = s[j] => i = j

IdSet(q) == { q[i].id : i \in 1..Len(q) }

\* C19: every queue entry is consumed at most once: it is put on the queue
\* once, removed from it once, handed to at most one habitat_upload call or
\* discarded in a drain (never both), and once removed it is not in the queue
\* again, whatever became of its upload.
C19_EntryConsumedOnce ==
    /\ Distinct(Ids(enqueued))
    /\ Distinct(Ids(habitat_upload_queue))
    /\ Distinct(Ids(removed))
    /\ Distinct(Ids(passed))
    /\ IdSet(removed) \subseteq IdSet(enqueued)
    /\ IdSet(passed) \subseteq IdSet(removed)
    /\ discarded \subseteq IdSet(removed)
    /\ discarded \cap IdSet(passed) = {}
    /\ IdSet(habitat_upload_queue) \cap IdSet(removed) = {}
    /\ IdSet(habitat_upload_queue) \cup IdSet(removed) = IdSet(enqueued)

\* Two uploads are over, one of them of the entry a drain has left, and
\* entries were discarded in that drain.
C19_Witness ==
    /\ Len(passed) >= 2
    /\ Cardinality(discarded) >= 2
    /\ survivors # <<>>
    /\ wpc = "while"

\* C27: the thread takes the drain branch exactly when the depth it reads at
\* line 176 equals queue_size; at a depth of 1 to queue_size - 1 it goes to the
\* single get of line 183, which removes the oldest entry only and leaves the
\* others queued in their order.
C27_DrainExactlyAtCapacity ==
    [][ /\ (wpc = "if_full" /\ wpc' # wpc) =>
              /\ Len(habitat_upload_queue) \in 1..queue_size
              /\ (wpc' = "drain_empty") <=> (Len(habitat_upload_queue) = queue_size)
              /\ (wpc' = "get") <=> (Len(habitat_upload_queue) \in 1..(queue_size - 1))
              /\ habitat_upload_queue' = habitat_upload_queue
        /\ (wpc = "get" /\ wpc' # wpc) =>
              /\ habitat_upload_queue # <<>>
              /\ sentence' = Head(habitat_upload_queue)
              /\ habitat_upload_queue' = Tail(habitat_upload_queue)
              /\ removed' = Append(removed, Head(habitat_upload_queue))
              /\ discarded' = discarded ]_vars

\* The thread has taken both branches: a single get first, a drain of a full
\* queue afterwards.
C27_Witness ==
    /\ observedFull
    /\ wpc = "upload"
    /\ Len(removed) = queue_size + 1
    /\ Cardinality(discarded) = queue_size - 1
    /\ Len(passed) = 1

\* C29: whenever the thread is about to execute a get(), at line 183 or in
\* the drain loop at line 178, the queue holds an entry, under every
\* interleaving with add(): the get() returns at once and the thread is never
\* left waiting in it.
C29_GetNeverBlocks ==
    wpc \in {"get", "drain_get"} =>
        /\ habitat_upload_queue # <<>>
        /\ ENABLED Worker

\* In a drain, the thread is about to get an entry that was added after the
\* queue was seen full.
C29_Witness ==
    /\ wpc = "drain_get"
    /\ Len(habitat_upload_queue) = 1
    /\ Len(removed) = queue_size
    /\ Len(removed) - drainFrom = queue_size

\* C30: while the uploader is not closed, with every HTTP call returning and
\* a producer that adds finitely many sentences, every entry put on the queue
\* is eventually removed from it by the thread, for an upload or in a drain:
\* no entry stays queued forever.
C30_EveryEntryRemoved ==
    \A i \in 1..MaxAdds :
        (i \in IdSet(habitat_upload_queue)) ~>
            (i \in IdSet(removed) \/ ~habitat_uploader_running)

\* ------------------------------------------------------------------------
\* Properties of main and the upload thread together
\* ------------------------------------------------------------------------

\* One iteration of the main loop.
IsIngestStep == reads' = reads + 1

\* A PUT has been issued: a response or an exception is recorded for it.
IsPutStep == Len(responses') > Len(responses)

\* C18: handling an input line issues no HTTP request and does not wait for
\* the upload thread: the main loop can take its next line, add() included,
\* wherever the thread is (in an upload or a retry as well), a step of the
\* main loop leaves the thread and its upload where they are, and every PUT is
\* a step of the upload thread.
C18_IngestNeverUploads ==
    /\ [](Reading => ENABLED (\E d \in SystemLines : M_Recv(d)))
    /\ [][ /\ IsIngestStep =>
                /\ responses' = responses
                /\ passed' = passed
                /\ removed' = removed
                /\ << wpc', retries', sentence' >> = << wpc, retries, sentence >>
           /\ IsPutStep => (wpc = "put" /\ ~IsIngestStep /\ lastIn' = lastIn) ]_vars

\* The third line has been handled and queued while the thread was retrying
\* the upload of the first.
C18_Witness ==
    /\ wpc = "put"
    /\ retries > 0
    /\ sentence.id = 1
    /\ lastIn.n = MaxReads
    /\ lastAdd = [id |-> MaxReads, result |-> "queued"]
    /\ Len(habitat_upload_queue) = MaxReads - 1

\* ------------------------------------------------------------------------
\* Properties of add() and ozimux_upload() on arbitrary strings
\* ------------------------------------------------------------------------

IsCallAddStep == lastIn'.n = lastIn.n + 1 /\ lastIn'.path = "add"

\* Exactly two '$' in front: the third character is another one.
TwoDollars(e) ==
    /\ Len(e) >= 3
    /\ e[1] = Dollar
    /\ e[2] = Dollar
    /\ e[3] # Dollar

\* Exactly one newline at the end.
OneNewline(e) ==
    /\ Len(e) >= 2
    /\ e[Len(e)] = Newline
    /\ e[Len(e) - 1] # Newline

\* C13: every entry of the upload queue starts with exactly two '$' and ends
\* with exactly one newline, whatever string was passed to add(), strings
\* that end in one or more newlines included.
C13_EntriesNormalized ==
    \A i \in 1..Len(habitat_upload_queue) :
        /\ TwoDollars(habitat_upload_queue[i].s)
        /\ OneNewline(habitat_upload_queue[i].s)

\* Number of '$' s starts with, and the body that follows them.
DollarRun(s) == Cardinality({ i \in 1..Len(s) : \A j \in 1..i : s[j] = Dollar })
BodyOf(s) == SubSeq(s, DollarRun(s) + 1, Len(s))

EndsInNewline(s) == s # <<>> /\ s[Len(s)] = Newline

\* C14: add() of k '$' followed by a body B enqueues '$$' + B + newline for
\* every k >= 0, also when B contains a '$' (B not ending in a newline, on
\* a queue with room and upload enabled).
C14_OnlyLeadingRunNormalized ==
    [][ (/\ IsCallAddStep
         /\ ~inhibit
         /\ Len(habitat_upload_queue) < queue_size
         /\ ~EndsInNewline(BodyOf(lastIn'.data)))
        => habitat_upload_queue' =
               Append(habitat_upload_queue,
                      [id |-> addCalls',
                       s  |-> <<Dollar, Dollar>> \o BodyOf(lastIn'.data) \o <<Newline>>]) ]_vars

IsCallOzimuxStep == lastIn'.n = lastIn.n + 1 /\ lastIn'.path = "ozimux"

HasChar(s, c) == \E i \in 1..Len(s) : s[i] = c

\* The inputs that are empty, have no '*', too few fields, or a field that
\* is not a number.
MalformedInputs ==
    { s \in OziStrings :
        \/ s = <<>>
        \/ ~HasChar(s, Star)
        \/ \E q \in OziPrefixes, t \in { TelemFewFields, TelemBadLat, TelemBadAlt } :
              s \in { q \o v : v \in OziTails(t) } }

\* C20: ozimux_upload returns normally on every input string, and sends no
\* datagram on any path that rejects the sentence; the empty string and the
\* strings without '*', with too few fields or with non-numeric fields are
\* all rejected.
C20_OzimuxNeverRaises ==
    [][ IsCallOzimuxStep =>
           /\ ~lastIn'.raised
           /\ mpc' = mpc
           /\ lastIn'.data \in MalformedInputs => analysis[lastIn'.data].ozi.log # "none"
           /\ analysis[lastIn'.data].ozi.log # "none" =>
                 (ozi_out' = ozi_out /\ unclosed' = unclosed) ]_vars

\* ozimux_upload has returned from its except clause on a sentence without
\* '$$', and nothing was sent.
C20_Witness ==
    /\ lastIn.path = "ozimux"
    /\ lastIn.data = TelemFewFields
    /\ analysis[lastIn.data].ozi.log = "exception"
    /\ ~lastIn.raised
    /\ ozi_out = <<>>

\* C21: the checksum suffix is compared case-insensitively: the valid
\* sentence with its checksum written in lowercase hex digits is accepted as
\* its uppercase form is, and its datagram goes out.
C21_ChecksumCaseInsensitive ==
    [][ (IsCallOzimuxStep /\ lastIn'.data \in OziLowerStrings) =>
           /\ analysis[lastIn'.data].ozi = analysis[Upper(lastIn'.data)].ozi
           /\ \/ Len(ozi_out') = Len(ozi_out) + 1
              \/ unclosed' = unclosed + 1 ]_vars

\* The sentences of OziStrings that meet every condition: the body has a
\* valid time, non-zero coordinates and an altitude in 0..65535, and is
\* followed by its own checksum in uppercase.
ValidSentences ==
    { q \o t \o <<Star>> \o crc16_ccitt(t) :
        q \in OziPrefixes, t \in { TelemGood, TelemAltZero, TelemAltMax } }

\* Something went to the socket layer: a datagram sent, or a send that failed.
DatagramAttempted ==
    \/ ozi_out' # ozi_out
    \/ unclosed' # unclosed

\* C22: ozimux_upload sends a position datagram only for a sentence whose
\* checksum matches, whose time parses, whose latitude and longitude are both
\* non-zero and whose altitude is within 0..65535; a zero coordinate, an
\* altitude of -1 or of 65536 give no datagram.
C22_DatagramOnlyIfValid ==
    [][ (IsCallOzimuxStep /\ DatagramAttempted) => lastIn'.data \in ValidSentences ]_vars

\* Calls on the sentence with a zero longitude have returned with nothing
\* sent.
C22_Witness ==
    /\ lastIn.path = "ozimux"
    /\ lastIn.data = <<Dollar, Dollar>> \o TelemZeroLon \o <<Star>> \o crc16_ccitt(TelemZeroLon)
    /\ analysis[lastIn.data].ozi.log = "zero_latlon"
    /\ ozi_out = <<>>
    /\ unclosed = 0

\* ------------------------------------------------------------------------
\* Properties of decode_horus_binary on records with one byte changed
\* ------------------------------------------------------------------------

\* t is r with exactly one byte changed, at one of the positions S.
OneByteChanged(t, r, S) ==
    /\ Len(t) = Len(r)
    /\ \E i \in S :
          /\ i <= Len(r)
          /\ t[i] # r[i]
          /\ \A j \in 1..Len(r) : j # i => t[j] = r[j]

Decoded == lastIn.path = "decode"

\* The statement with the sizes as written: a record that decodes has 21
\* bytes, of which the first 19 come before the checksum.
C26_Original ==
    Decoded =>
        /\ lastIn.decode = "none" => Len(lastIn.data) = 21
        /\ \A r \in GoodRecords :
              OneByteChanged(lastIn.data, r, 1..19) =>
                  (lastIn.decode = "checksum_mismatch" /\ log_file = <<>>)

\* C26: a record that decodes has 22 bytes, and changing any single byte
\* among its first 20 (all that comes before the checksum field) makes
\* decode_horus_binary reject it with a checksum mismatch and return no
\* sentence.
C26_TamperedRecordRejected ==
    Decoded =>
        /\ lastIn.decode = "none" => Len(lastIn.data) = 22
        /\ lastIn.data \in GoodRecords => lastIn.decode = "none"
        /\ \A r \in GoodRecords :
              OneByteChanged(lastIn.data, r, 1..20) =>
                  (lastIn.decode = "checksum_mismatch" /\ log_file = <<>>)

\* The valid packet with the lowest bit of its 20th byte flipped has been
\* refused.
C26_Witness ==
    /\ Decoded
    /\ \E r \in GoodRecords : lastIn.data = [r EXCEPT ![20] = Xor(r[20], 1)]
    /\ lastIn.decode = "checksum_mismatch"
    /\ log_file = <<>>

\* ------------------------------------------------------------------------
\* Listener documents: postListenerData and fetchUuids
\* ------------------------------------------------------------------------

\* Calls of postListenerData.
MaxPosts == 3

\* UUIDs in a batch of the server; line 266 asks for 10.
UuidBatch == 2

\* Line 262: _retries = 5.
fetch_tries == 5

\* Line 266-267: the GET returns a JSON document whose 'uuids' list holds a
\* batch of UUIDs the server has not handed out before (k of them), or it
\* raises: a network error, a timeout, a body that is not JSON or that has no
\* 'uuids' key.
GetOutcomes == { [kind |-> "batch", count |-> k] : k \in {0, UuidBatch} }
                   \cup { [kind |-> "exception", count |-> 0] }

\* The UUIDs of a batch of k, issued after n others.
Fresh(n, k) == [i \in 1..k |-> n + i]

\* A pop() that leaves the list as it was.
pop_keep(u) == [item |-> u[Len(u)], list |-> u]

\* list.pop(): removes and returns the last element.
pop(u) == [item |-> u[Len(u)], list |-> SubSeq(u, 1, Len(u) - 1)]

\* Lines 236-240: postListenerData is called; with an empty pool it calls
\* fetchUuids, whose line 262 sets _retries.
L_Call ==
    /\ lpc = "idle"
    /\ Len(results) < MaxPosts
    /\ IF Len(uuids) < 1
       THEN lpc' = "get" /\ fetch_retries' = fetch_tries /\ attempts' = 0
       ELSE lpc' = "pop" /\ UNCHANGED << fetch_retries, attempts >>
    /\ UNCHANGED << uuids, issued, doc, posted, results, uploaderVars, guiVars >>

\* Lines 264-274: one pass of fetchUuids' loop.
F_Get ==
    /\ lpc = "get"
    /\ fetch_retries > 0
    /\ attempts' = attempts + 1
    /\ \E o \in GetOutcomes :
          IF o.kind = "batch"
          THEN /\ uuids' = uuids \o Fresh(issued, o.count)
               /\ issued' = issued + o.count
               /\ lpc' = "pop"
               /\ UNCHANGED fetch_retries
          ELSE /\ fetch_retries' = fetch_retries - 1
               /\ UNCHANGED << uuids, issued, lpc >>
    /\ UNCHANGED << doc, posted, results, uploaderVars, guiVars >>

\* Lines 264 and 276-277: the loop ends with _retries at 0, fetchUuids logs
\* that it gave up and returns.
F_GaveUp ==
    /\ lpc = "get"
    /\ fetch_retries = 0
    /\ lpc' = "pop"
    /\ UNCHANGED << uuids, fetch_retries, attempts, issued, doc, posted, results,
                    uploaderVars, guiVars >>

\* Lines 243-249: doc['_id'] = uuids.pop(); IndexError on an empty list
\* returns False.
P_Pop ==
    /\ lpc = "pop"
    /\ IF uuids = <<>>
       THEN /\ results' = Append(results, FALSE)
            /\ lpc' = "idle"
            /\ UNCHANGED << uuids, doc >>
       ELSE /\ doc' = pop(uuids).item
            /\ uuids' = pop(uuids).list
            /\ lpc' = "post"
            /\ UNCHANGED results
    /\ UNCHANGED << fetch_retries, attempts, issued, posted, uploaderVars, guiVars >>

\* Lines 251-256: requests.post returns (True) or raises (False).
P_Post ==
    /\ lpc = "post"
    /\ \E ok \in BOOLEAN :
          /\ posted' = Append(posted, [id |-> doc, answered |-> ok])
          /\ results' = Append(results, ok)
    /\ lpc' = "idle"
    /\ UNCHANGED << uuids, fetch_retries, attempts, issued, doc, uploaderVars, guiVars >>

\* The listener documents are posted from main before its loop starts (lines
\* 791-799): nothing has been read yet.
InitPosts ==
    /\ analysis = <<>>
    /\ mpc = "read"
    /\ reads = 0
    /\ ozi_out = <<>>
    /\ summary_out = <<>>
    /\ log_file = <<>>
    /\ unclosed = 0
    /\ lastIn = NoInput
    /\ decodeErrors = {}
    /\ InitUploader
    /\ InitListener
    /\ InitGui /\ udp_mode = FALSE
    /\ inhibit = FALSE
    /\ stdin_mode = FALSE
    /\ python3 = TRUE
    /\ summary_port = SummaryPortDefault

NextListener ==
    \/ L_Call
    \/ F_Get
    \/ F_GaveUp
    \/ P_Pop
    \/ P_Post

SpecListener == InitPosts /\ [][NextListener]_vars

\* ------------------------------------------------------------------------
\* Properties of the listener documents
\* ------------------------------------------------------------------------

PostedIds == { posted[i].id : i \in 1..Len(posted) }

PoolOf(u) == { u[i] : i \in 1..Len(u) }

\* C32: every document handed to requests.post carries as _id a UUID that
\* was in the fetched pool and has been removed from it, so no two documents
\* carry the same UUID; fetchUuids gives up only after 5 failed GETs, and when
\* the pool is empty as postListenerData reaches its pop(), no document is
\* posted and the call returns False.
C32_OneUuidPerDocument ==
    [][ /\ Len(posted') > Len(posted) =>
              /\ Len(posted') = Len(posted) + 1
              /\ Last(posted').id = doc
              /\ doc \in 1..issued
              /\ doc \notin PostedIds
        /\ (lpc = "pop" /\ lpc' = "post") =>
              /\ doc' \in PoolOf(uuids)
              /\ doc' \notin PoolOf(uuids')
              /\ Len(uuids') = Len(uuids) - 1
        /\ \A i \in 1..Len(posted') : posted'[i].id \notin PoolOf(uuids')
        /\ \A i, j \in 1..Len(posted') : posted'[i].id = posted'[j].id => i = j
        /\ (lpc = "get" /\ fetch_retries = 0) => (attempts = 5 /\ uuids = <<>>)
        /\ (lpc = "pop" /\ uuids = <<>>) =>
              /\ posted' = posted
              /\ results' = Append(results, FALSE)
              /\ lpc' = "idle" ]_vars

\* Two documents have been posted with the two UUIDs of a batch; the third
\* call has found the pool empty, fetchUuids has given up after 5 GETs, and
\* the call has returned False.
C32_Witness ==
    /\ Len(posted) = 2
    /\ PostedIds = {1, 2}
    /\ uuids = <<>>
    /\ attempts = 5
    /\ fetch_retries = 0
    /\ lpc = "idle"
    /\ Len(results) = 3
    /\ results[3] = FALSE

\* ------------------------------------------------------------------------
\* fskstats.py: the reader thread, the input queue and the plot timer
\* ------------------------------------------------------------------------

\* Lines read by read_stdin; datagrams and errors of recvfrom in read_udp.
MaxItems == 3

\* Line 38: in_queue = Queue.Queue(1).
in_queue_size == 1

\* The i-th line or datagram received.
Item(i) == << "item", i >>

\* Queue.full().
full(q) == Len(q) >= in_queue_size

\* Queue.put_nowait on in_queue: raises Full on a full queue.
in_queue_put_nowait(q, e) ==
    IF full(q)
    THEN [full |-> TRUE, queue |-> q]
    ELSE [full |-> FALSE, queue |-> Append(q, e)]

\* Lines 175-177: read_stdin reads a line.
R_ReadLine ==
    /\ rpc = "read" /\ ~udp_mode
    /\ arrivals < MaxItems
    /\ arrivals' = arrivals + 1
    /\ in_line' = Item(arrivals')
    /\ rpc' = "test_full"
    /\ UNCHANGED << in_queue, udp_mode, m, dropped, tpc, plotted, uploaderVars,
                    listenerVars >>

\* Lines 178-180: readline returns "", the thread leaves its loop.
R_ReadEof ==
    /\ rpc = "read" /\ ~udp_mode
    /\ in_line' = <<>>
    /\ rpc' = "ended"
    /\ UNCHANGED << in_queue, udp_mode, m, arrivals, dropped, tpc, plotted,
                    uploaderVars, listenerVars >>

\* Line 182: if not in_queue.full().
R_TestFull ==
    /\ rpc = "test_full"
    /\ IF full(in_queue)
       THEN rpc' = "read" /\ dropped' = dropped \cup {in_line}
       ELSE rpc' = "put" /\ UNCHANGED dropped
    /\ UNCHANGED << in_queue, udp_mode, in_line, m, arrivals, tpc, plotted,
                    uploaderVars, listenerVars >>

\* Line 183: in_queue.put_nowait(in_line); Queue.Full is not caught and would
\* end the thread.
R_Put ==
    /\ rpc = "put"
    /\ LET r == in_queue_put_nowait(in_queue, in_line)
       IN  /\ in_queue' = r.queue
           /\ rpc' = IF r.full THEN "crashed" ELSE "read"
           /\ dropped' = IF r.full THEN dropped \cup {in_line} ELSE dropped
    /\ UNCHANGED << udp_mode, in_line, m, arrivals, tpc, plotted, uploaderVars,
                    listenerVars >>

\* Lines 203-205: recvfrom returns a datagram.
D_Recv ==
    /\ rpc = "read" /\ udp_mode
    /\ arrivals < MaxItems
    /\ arrivals' = arrivals + 1
    /\ m' = Item(arrivals')
    /\ rpc' = "test_m"
    /\ UNCHANGED << in_queue, udp_mode, in_line, dropped, tpc, plotted, uploaderVars,
                    listenerVars >>

\* Lines 206-207: recvfrom times out, m = None.
D_Timeout ==
    /\ rpc = "read" /\ udp_mode
    /\ m' = None
    /\ rpc' = "test_m"
    /\ UNCHANGED << in_queue, udp_mode, in_line, arrivals, dropped, tpc, plotted,
                    uploaderVars, listenerVars >>

\* Lines 208-209: recvfrom raises something else; the traceback is printed
\* and m keeps the value it had.
D_RecvError ==
    /\ rpc = "read" /\ udp_mode
    /\ arrivals < MaxItems
    /\ arrivals' = arrivals + 1
    /\ rpc' = "test_m"
    /\ UNCHANGED << in_queue, udp_mode, in_line, m, dropped, tpc, plotted,
                    uploaderVars, listenerVars >>

\* Lines 211-212: if m != None: in_queue.put_nowait(m[0]), with no test of
\* full(); reading an unassigned m raises NameError, a full queue raises
\* Queue.Full, and neither is caught.
D_Put ==
    /\ rpc = "test_m"
    /\ IF m = Unbound
       THEN rpc' = "crashed" /\ UNCHANGED << in_queue, dropped >>
       ELSE IF m = None
       THEN rpc' = "read" /\ UNCHANGED << in_queue, dropped >>
       ELSE LET r == in_queue_put_nowait(in_queue, m)
            IN  /\ in_queue' = r.queue
                /\ rpc' = IF r.full THEN "crashed" ELSE "read"
                /\ dropped' = IF r.full THEN dropped \cup {m} ELSE dropped
    /\ UNCHANGED << udp_mode, in_line, m, arrivals, tpc, plotted, uploaderVars,
                    listenerVars >>

\* Lines 89-91: the timer calls update_plots, which returns on an empty queue.
T_Empty ==
    /\ tpc = "idle"
    /\ tpc' = IF Len(in_queue) = 0 THEN "idle" ELSE "get"
    /\ UNCHANGED << in_queue, udp_mode, rpc, in_line, m, arrivals, dropped, plotted,
                    uploaderVars, listenerVars >>

\* Line 92: in_data_raw = in_queue.get_nowait(); the rest of update_plots draws.
T_Get ==
    /\ tpc = "get"
    /\ in_queue # <<>>
    /\ plotted' = Append(plotted, Head(in_queue))
    /\ in_queue' = Tail(in_queue)
    /\ tpc' = "idle"
    /\ UNCHANGED << udp_mode, rpc, in_line, m, arrivals, dropped, uploaderVars,
                    listenerVars >>

\* The reader thread: read_stdin (lines 171-183) or read_udp (lines 188-215).
Reader ==
    \/ R_ReadLine \/ R_ReadEof \/ R_TestFull \/ R_Put
    \/ D_Recv \/ D_Timeout \/ D_RecvError \/ D_Put

\* Lines 218-223: one of the two readers is started.
InitStats ==
    /\ analysis = <<>>
    /\ mpc = "read"
    /\ reads = 0
    /\ ozi_out = <<>>
    /\ summary_out = <<>>
    /\ log_file = <<>>
    /\ unclosed = 0
    /\ lastIn = NoInput
    /\ decodeErrors = {}
    /\ InitUploader
    /\ InitListener
    /\ InitGui /\ udp_mode \in BOOLEAN
    /\ inhibit = FALSE
    /\ stdin_mode = FALSE
    /\ python3 = TRUE
    /\ summary_port = SummaryPortDefault

NextStats ==
    \/ Reader
    \/ T_Empty
    \/ T_Get

SpecStats == InitStats /\ [][NextStats]_vars

\* ------------------------------------------------------------------------
\* Properties of the statistics GUI's input queue
\* ------------------------------------------------------------------------

\* A step in which the reader, holding an item, reaches its put with the
\* queue full: read_stdin at line 182, read_udp at line 211.
OffersToFullQueue ==
    /\ full(in_queue)
    /\ rpc' # rpc
    /\ \/ rpc = "test_full"
       \/ rpc = "test_m" /\ m \notin {None, Unbound}

\* C33: in_queue never holds more than one item, and a reader that has an
\* item for a full queue drops it and goes on reading: it does not raise and
\* its thread does not end, whether it reads standard input or UDP.
C33_FullQueueDropsItem ==
    [][ /\ Len(in_queue') <= in_queue_size
        /\ OffersToFullQueue =>
              /\ rpc' = "read"
              /\ in_queue' = in_queue
              /\ (IF udp_mode THEN m ELSE in_line) \in dropped' ]_vars

====
